---- MODULE Spec2Model ----
(***************************************************************************)
(* Submission review workflow of the "Староста года" contest bot           *)
(* (src/main.py): curator round-robin scheduler, submission recording,     *)
(* curator accept / reject decisions and the review-queue dispatcher.      *)
(*                                                                         *)
(* Every aiogram handler is a coroutine.  Updates are handled as           *)
(* independent tasks, so two handlers interleave at their suspension       *)
(* points (each aiosqlite statement, each Bot API call, asyncio.sleep).    *)
(* A handler in flight is an element of the bag `handlers`; `pc` is the    *)
(* suspension point it is parked at.  One SQLite write transaction         *)
(* (the statements up to db.commit()) is one atomic step; the FSM          *)
(* MemoryStorage calls never suspend and run with the step around them.    *)
(***************************************************************************)
EXTENDS Integers, Sequences, FiniteSets, Bags, TLC

VARIABLES
    curators,          \* table curators, ORDER BY idx: sequence of [idx, tg]
    curator_seq,       \* AUTOINCREMENT counter of curators.idx
    curator_tokens,    \* meta rows 'curator_token_<token>' with value 'valid'
    submissions_closed,  \* meta row 'submissions_closed' holds 'true'
    next_curator_idx,  \* meta row 'next_curator_idx' (NoRow when absent)
    users,             \* table users: tg_id -> [curator_idx, points]
    submissions,       \* table submissions: id -> row
    sub_seq,           \* AUTOINCREMENT counter of submissions.id
    fsm,               \* MemoryStorage: actor -> [state, task_id, reject_submission,
                       \*                           collected_media, media_group_id,
                       \*                           collected_photos]
    handlers,          \* bag of handler coroutines in flight
    presented,         \* <<curator tg, submission id>>: review buttons sent to the curator
    clock,             \* datetime.utcnow() as a logical clock
    hist               \* history of the run (not program state)

vars == <<curators, curator_seq, curator_tokens, submissions_closed, next_curator_idx, users, submissions, sub_seq, fsm,
          handlers, presented, clock, hist>>

----------------------------------------------------------------------------
(* Bounds of the model *)

\* largest curator ordinal of the lineups the scheduler model starts from
MaxCur == 2
\* participants that go through registration in the scheduler model
MaxUsers == 2
\* group messages that reach process_group in the scheduler model
MaxRuns == 3
\* handler coroutines in flight at the same time
MaxInFlight == 2
\* updates (button presses and messages) delivered to the review engine
MaxEvents == 7

\* fetchone() found no row (ordinals and ids start at 1)
NoRow == 0
\* Python None / SQL NULL in an integer column or local
Null == 0

Participants == 1..MaxUsers

----------------------------------------------------------------------------
(* Static task catalog *)

TASKS ==
    [t \in 1..14 |->
        CASE t = 1  -> [type |-> "photo_text",  points |-> 1]
          [] t = 2  -> [type |-> "text",        points |-> 1]
          [] t = 3  -> [type |-> "text",        points |-> 1]
          [] t = 4  -> [type |-> "text",        points |-> 1]
          [] t = 5  -> [type |-> "photo",       points |-> 2]
          [] t = 6  -> [type |-> "photo",       points |-> 2]
          [] t = 7  -> [type |-> "photo_multi", points |-> 2]
          [] t = 8  -> [type |-> "photo",       points |-> 2]
          [] t = 9  -> [type |-> "photo",       points |-> 3]
          [] t = 10 -> [type |-> "video",       points |-> 3]
          [] t = 11 -> [type |-> "video",       points |-> 3]
          [] t = 12 -> [type |-> "video",       points |-> 3]
          [] t = 13 -> [type |-> "video",       points |-> 3]
          [] OTHER  -> [type |-> "photo_video", points |-> 10]]

task_by_id(tid) == TASKS[tid]

----------------------------------------------------------------------------
(* Helpers on sequences and bags *)

Range(s) == {s[i] : i \in DOMAIN s}

\* list.index(x): position (0-based) of the first element equal to x
IndexOf(s, x) == (CHOOSE i \in DOMAIN s : s[i] = x /\ \A j \in 1..(i - 1) : s[j] # x) - 1

InFlight == BagToSet(handlers)
NumInFlight == BagCardinality(handlers)
Spawn(h) == handlers (+) SetToBag({h})
Retire(h) == handlers (-) SetToBag({h})
Move(h, h2) == (handlers (-) SetToBag({h})) (+) SetToBag({h2})

\* ascending sequence of the elements of a set of numbers
RECURSIVE SortedSeq(_)
SortedSeq(S) ==
    IF S = {} THEN <<>>
    ELSE LET m == CHOOSE x \in S : \A y \in S : x <= y
         IN <<m>> \o SortedSeq(S \ {m})

CuratorRow(i) == [idx |-> i, tg |-> 100 + i]

\* sqlite_sequence of a table that holds the rows all_cur and lost none
LastIdx(all_cur) == IF all_cur = <<>> THEN 0 ELSE all_cur[Len(all_cur)].idx
Lineup(S) == [k \in 1..Cardinality(S) |-> CuratorRow(SortedSeq(S)[k])]

----------------------------------------------------------------------------
(* Curator scheduler: get_next_curator *)

\* idxs = [r[0] for r in all_cur]
Idxs(all_cur) == [k \in DOMAIN all_cur |-> all_cur[k].idx]

\* the row whose idx equals next_idx, else the first row
Chosen(all_cur, next_idx) ==
    IF \E k \in DOMAIN all_cur : all_cur[k].idx = next_idx
    THEN all_cur[CHOOSE k \in DOMAIN all_cur : all_cur[k].idx = next_idx]
    ELSE all_cur[1]

NewNextSkip(all_cur, next_idx) ==
    LET idxs == Idxs(all_cur)
        pos == IndexOf(idxs, Chosen(all_cur, next_idx).idx)
    IN idxs[((pos + 2) % Len(idxs)) + 1]

\* variant: the cursor stays on the chosen curator
NewNextStay(all_cur, next_idx) == Chosen(all_cur, next_idx).idx

\* new_next = idxs[(pos + 1) % len(idxs)]
NewNext(all_cur, next_idx) ==
    LET idxs == Idxs(all_cur)
        pos == IndexOf(idxs, Chosen(all_cur, next_idx).idx)
    IN idxs[((pos + 1) % Len(idxs)) + 1]

----------------------------------------------------------------------------
(* Registration dialog: cmd_start, process_fio, process_group *)

IdleFsm == [state |-> "none", task_id |-> Null, reject_submission |-> Null,
            collected_media |-> <<>>, media_group_id |-> Null, collected_photos |-> <<>>]

\* participants are interchangeable: they open their dialogs in the order 1, 2, ...
EarlierStarted(p) ==
    IF p = 1 THEN TRUE
    ELSE (p - 1) \in DOMAIN users
         \/ \E h \in InFlight : h.kind = "process_group" /\ h.user = p - 1

\* /start of an actor who is not in users: the dialog opens
cmd_start(p) ==
    /\ p \notin DOMAIN users
    /\ fsm[p].state = "none"
    /\ EarlierStarted(p)
    /\ fsm' = [fsm EXCEPT ![p].state = "waiting_for_fio"]
    /\ UNCHANGED <<submissions_closed, curators, curator_seq, curator_tokens, next_curator_idx, users, submissions, sub_seq,
                   handlers, presented, clock, hist>>

process_fio(p) ==
    /\ fsm[p].state = "waiting_for_fio"
    /\ fsm' = [fsm EXCEPT ![p].state = "waiting_for_group"]
    /\ UNCHANGED <<submissions_closed, curators, curator_seq, curator_tokens, next_curator_idx, users, submissions, sub_seq,
                   handlers, presented, clock, hist>>

\* the update reaches process_group: the coroutine starts
process_group_start(p) ==
    /\ fsm[p].state = "waiting_for_group"
    /\ NumInFlight < MaxInFlight
    /\ hist.runs < MaxRuns
    /\ handlers' = Spawn([kind |-> "process_group", pc |-> "rd_cursor", user |-> p,
                          next_idx |-> Null, all_cur |-> <<>>, curator_idx |-> Null])
    /\ hist' = [hist EXCEPT !.runs = @ + 1,
                            !.overlap = @ \/ NumInFlight > 0,
                            !.stray = @ \/ p \in DOMAIN users]
    /\ UNCHANGED <<submissions_closed, curators, curator_seq, curator_tokens, next_curator_idx, users, submissions, sub_seq, fsm, presented, clock>>

\* SELECT value FROM meta WHERE key='next_curator_idx'
get_next_curator_cursor(h) ==
    /\ h.kind = "process_group" /\ h.pc = "rd_cursor"
    /\ handlers' = Move(h, IF next_curator_idx = NoRow
                           THEN [h EXCEPT !.pc = "ins_user"]
                           ELSE [h EXCEPT !.pc = "rd_list", !.next_idx = next_curator_idx])
    /\ UNCHANGED <<submissions_closed, curators, curator_seq, curator_tokens, next_curator_idx, users, submissions, sub_seq, fsm, presented, clock, hist>>

\* SELECT idx, fio, telegram_id FROM curators ORDER BY idx
get_next_curator_list(h) ==
    /\ h.kind = "process_group" /\ h.pc = "rd_list"
    /\ handlers' = Move(h, IF curators = <<>>
                           THEN [h EXCEPT !.pc = "ins_user"]
                           ELSE [h EXCEPT !.pc = "wr_cursor", !.all_cur = curators])
    /\ UNCHANGED <<submissions_closed, curators, curator_seq, curator_tokens, next_curator_idx, users, submissions, sub_seq, fsm, presented, clock, hist>>

\* variant: the chosen curator is returned without the cursor being written
get_next_curator_return(h) ==
    /\ h.kind = "process_group" /\ h.pc = "wr_cursor"
    /\ handlers' = Move(h, [h EXCEPT !.pc = "ins_user",
                                     !.curator_idx = Chosen(h.all_cur, h.next_idx).idx])
    /\ hist' = [hist EXCEPT !.given = Append(@, Chosen(h.all_cur, h.next_idx).idx)]
    /\ UNCHANGED <<submissions_closed, curators, curator_seq, curator_tokens, next_curator_idx, users, submissions,
                   sub_seq, fsm, presented, clock>>

\* INSERT OR REPLACE INTO meta ... new_next; commit; return chosen
get_next_curator_write(h) ==
    /\ h.kind = "process_group" /\ h.pc = "wr_cursor"
    /\ next_curator_idx' = NewNext(h.all_cur, h.next_idx)
    /\ handlers' = Move(h, [h EXCEPT !.pc = "ins_user",
                                     !.curator_idx = Chosen(h.all_cur, h.next_idx).idx])
    /\ hist' = [hist EXCEPT !.given = Append(@, Chosen(h.all_cur, h.next_idx).idx)]
    /\ UNCHANGED <<submissions_closed, curators, curator_seq, curator_tokens, users, submissions, sub_seq, fsm, presented, clock>>

\* variant: the insert replaces the record of a registered participant
process_group_insert_replace(h) ==
    /\ h.kind = "process_group" /\ h.pc = "ins_user"
    /\ users' = [u \in DOMAIN users \cup {h.user} |->
                    IF u = h.user THEN [curator_idx |-> h.curator_idx, points |-> 0]
                    ELSE users[u]]
    /\ hist' = [hist EXCEPT !.log = Append(@, h.curator_idx)]
    /\ handlers' = Move(h, [h EXCEPT !.pc = "notify"])
    /\ UNCHANGED <<submissions_closed, curators, curator_seq, curator_tokens, next_curator_idx, submissions, sub_seq,
                   fsm, presented, clock>>

\* INSERT INTO users ...; tg_id is the primary key, a second insert raises
process_group_insert(h) ==
    /\ h.kind = "process_group" /\ h.pc = "ins_user"
    /\ IF h.user \in DOMAIN users
       THEN /\ handlers' = Retire(h)
            /\ UNCHANGED <<users, hist>>
       ELSE /\ users' = [u \in DOMAIN users \cup {h.user} |->
                            IF u = h.user THEN [curator_idx |-> h.curator_idx, points |-> 0]
                            ELSE users[u]]
            /\ hist' = [hist EXCEPT !.log = Append(@, h.curator_idx)]
            /\ handlers' = Move(h, [h EXCEPT !.pc = "notify"])
    /\ UNCHANGED <<submissions_closed, curators, curator_seq, curator_tokens, next_curator_idx, submissions, sub_seq, fsm, presented, clock>>

\* message.answer, bot.send_message(curator), state.clear(); a failed send raises
process_group_notify(h) ==
    /\ h.kind = "process_group" /\ h.pc = "notify"
    /\ \E delivered \in BOOLEAN :
          fsm' = IF delivered THEN [fsm EXCEPT ![h.user] = IdleFsm] ELSE fsm
    /\ handlers' = Retire(h)
    /\ UNCHANGED <<submissions_closed, curators, curator_seq, curator_tokens, next_curator_idx, users, submissions, sub_seq, presented, clock, hist>>

----------------------------------------------------------------------------
(* Scheduler specification: a stored lineup and cursor, then registrations *)

InitHist == [cursor0 |-> NoRow, log |-> <<>>, overlap |-> FALSE, stray |-> FALSE, runs |-> 0,
             events |-> 0, awards |-> EmptyBag, verdict |-> "", frags |-> 0,
             given |-> <<>>, tokens |-> 0, invites |-> 0, arrivals |-> <<>>, empty |-> 0,
             epoch |-> 0, discarded |-> {}, refused |-> {}, joined |-> <<>>]

InitSched ==
    /\ \E S \in SUBSET (1..MaxCur) : curators = Lineup(S)
    /\ curator_seq = LastIdx(curators)
    /\ curator_tokens = {}
    /\ submissions_closed = FALSE
    /\ next_curator_idx \in {NoRow} \cup (1..MaxCur)
    /\ users = <<>>
    /\ submissions = <<>>
    /\ sub_seq = 0
    /\ fsm = [p \in Participants |-> IdleFsm]
    /\ handlers = EmptyBag
    /\ presented = {}
    /\ clock = 0
    /\ hist = [InitHist EXCEPT !.cursor0 = next_curator_idx]

NextSched ==
    \/ \E p \in Participants : cmd_start(p)
    \/ \E p \in Participants : process_fio(p)
    \/ \E p \in Participants : process_group_start(p)
    \/ \E h \in InFlight : get_next_curator_cursor(h)
    \/ \E h \in InFlight : get_next_curator_list(h)
    \/ \E h \in InFlight : get_next_curator_write(h)
    \/ \E h \in InFlight : process_group_insert(h)
    \/ \E h \in InFlight : process_group_notify(h)

SpecSched == InitSched /\ [][NextSched]_vars

----------------------------------------------------------------------------
(* Scheduler claims *)

\* position (0-based) in the stored lineup of the curator the initial cursor designates
DesignatedPos ==
    IF \E k \in DOMAIN curators : curators[k].idx = hist.cursor0
    THEN (CHOOSE k \in DOMAIN curators : curators[k].idx = hist.cursor0) - 1
    ELSE 0

\* ordinal of the curator j ring positions after the first one of the lineup
RingAt(j) == curators[(j % Len(curators)) + 1].idx

AssignedTo(c) == {u \in DOMAIN users : users[u].curator_idx = c}

Quiet == handlers = EmptyBag

\* C8: round-robin fairness. With a stored cursor, K >= 1 curators and
\* participants registering one after another (no two registrations overlap,
\* no registered participant registers again), the i-th registered participant
\* gets the curator i-1 ring positions after the one the cursor designated, and
\* whenever M*K participants are registered every curator has exactly M of them.
RoundRobinFair ==
    (hist.cursor0 # NoRow /\ curators # <<>> /\ ~hist.overlap /\ ~hist.stray) =>
        /\ \A i \in 1..Len(hist.log) : hist.log[i] = RingAt(DesignatedPos + i - 1)
        /\ \A m \in 1..MaxUsers :
              Cardinality(DOMAIN users) = m * Len(curators) =>
                  \A k \in DOMAIN curators :
                      Cardinality(AssignedTo(curators[k].idx)) = m

\* two curators, the cursor on the second one, two participants registered one
\* after another: the rotation has wrapped
RoundRobinWrapped ==
    /\ Len(curators) = 2 /\ hist.cursor0 = curators[2].idx
    /\ ~hist.overlap /\ ~hist.stray /\ Quiet
    /\ Cardinality(DOMAIN users) = 2

\* C9: get_next_curator returns None only if the curator list is empty, and then
\* nothing is written; with a non-empty curator list (whatever the cursor row
\* holds, also when it was never written) it returns a curator and the
\* registering participant gets a non-null curator_idx.
AssignReturnsCurator ==
    /\ \A h \in InFlight :
          (h.kind = "process_group" /\ h.pc = "ins_user" /\ h.curator_idx = Null)
              => curators = <<>>
    /\ curators = <<>> => next_curator_idx = hist.cursor0
    /\ \A u \in DOMAIN users : curators # <<>> => users[u].curator_idx # Null

\* C10: two registrations whose get_next_curator steps interleave end as some
\* serial order of the two would: with K >= 2 curators and a stored cursor the
\* two participants hold two consecutive ring positions, never the same one,
\* and the cursor has advanced by two positions.
ConcurrentAssignSerializable ==
    (/\ Len(curators) >= 2 /\ hist.cursor0 # NoRow
     /\ hist.runs = 2 /\ Len(hist.log) = 2 /\ Quiet) =>
        /\ hist.log[1] # hist.log[2]
        /\ {hist.log[1], hist.log[2]} = {RingAt(DesignatedPos), RingAt(DesignatedPos + 1)}
        /\ next_curator_idx = RingAt(DesignatedPos + 2)

\* the two registrations did overlap
TwoRegistrationsOverlapped ==
    /\ Len(curators) >= 2 /\ hist.cursor0 # NoRow
    /\ hist.runs = 2 /\ Len(hist.log) = 2 /\ Quiet /\ hist.overlap

\* smallest ordinal of a set of ordinals
MinOrd(S) == CHOOSE x \in S : \A y \in S : x <= y

\* ordinal after c in the ring of the ordinals S (ascending, last wraps to first)
RingSucc(S, c) ==
    IF \E d \in S : d > c THEN MinOrd({d \in S : d > c}) ELSE MinOrd(S)

----------------------------------------------------------------------------
(* Curator registry: cmd_delete_curator, confirm_deletion *)

\* largest curator ordinal of the lineups the registry model starts from
MaxLineup == 3
\* 'confirm_delete_curator_<id>' presses delivered to the registry model
MaxRemovals == 3

\* the administrator (a member of ADMIN_IDS)
AdminTg == 900
RegistryUsers == {1, 2}
CuratorTgs == {CuratorRow(i).tg : i \in 1..MaxLineup}

\* /delete_curator <telegram_id>: the curator is looked up and the confirmation
\* keyboard is sent to the administrator
cmd_delete_curator(c) ==
    /\ \E k \in DOMAIN curators : curators[k].tg = c
    /\ <<AdminTg, c>> \notin presented
    /\ presented' = presented \cup {<<AdminTg, c>>}
    /\ UNCHANGED <<submissions_closed, curators, curator_seq, curator_tokens, next_curator_idx, users, submissions, sub_seq, fsm,
                   handlers, clock, hist>>

\* 'confirm_delete_curator_<id>' pressed: the coroutine starts
confirm_deletion_start(c) ==
    /\ <<AdminTg, c>> \in presented
    /\ hist.events < MaxRemovals
    /\ NumInFlight < MaxInFlight
    /\ hist' = [hist EXCEPT !.events = @ + 1]
    /\ handlers' = Spawn([kind |-> "confirm_deletion", pc |-> "cd_row", entity_id |-> c,
                          idx |-> Null, all_cur |-> <<>>])
    /\ UNCHANGED <<submissions_closed, curators, curator_seq, curator_tokens, next_curator_idx, users, submissions, sub_seq, fsm,
                   presented, clock>>

\* SELECT idx, fio FROM curators WHERE telegram_id=?; no row: 'not found', return
confirm_deletion_row(h) ==
    /\ h.kind = "confirm_deletion" /\ h.pc = "cd_row"
    /\ handlers' =
          IF \E k \in DOMAIN curators : curators[k].tg = h.entity_id
          THEN Move(h, [h EXCEPT !.pc = "cd_list",
                                 !.idx = curators[CHOOSE k \in DOMAIN curators :
                                                     curators[k].tg = h.entity_id].idx])
          ELSE Retire(h)
    /\ UNCHANGED <<submissions_closed, curators, curator_seq, curator_tokens, next_curator_idx, users, submissions, sub_seq, fsm,
                   presented, clock, hist>>

\* SELECT idx, telegram_id FROM curators ORDER BY idx; len(all_cur) <= 1: refused;
\* ids.index(idx) raises when the row is no longer in the list
confirm_deletion_list(h) ==
    /\ h.kind = "confirm_deletion" /\ h.pc = "cd_list"
    /\ handlers' =
          IF Len(curators) <= 1 \/ h.idx \notin Range(Idxs(curators))
          THEN Retire(h)
          ELSE Move(h, [h EXCEPT !.pc = "cd_write", !.all_cur = curators])
    /\ UNCHANGED <<submissions_closed, curators, curator_seq, curator_tokens, next_curator_idx, users, submissions, sub_seq, fsm,
                   presented, clock, hist>>

\* new_curator = all_cur[(pos + 1) % len(ids)]
NewCurator(all_cur, idx) ==
    LET ids == Idxs(all_cur)
        pos == IndexOf(ids, idx)
    IN all_cur[((pos + 1) % Len(ids)) + 1].idx

\* DELETE FROM curators WHERE idx=?
DeleteCurator(idx) ==
    LET keep == {k \in DOMAIN curators : curators[k].idx # idx}
    IN [j \in 1..Cardinality(keep) |-> curators[SortedSeq(keep)[j]]]

\* UPDATE users SET curator_idx=new WHERE curator_idx=idx; DELETE; commit
confirm_deletion_write(h) ==
    /\ h.kind = "confirm_deletion" /\ h.pc = "cd_write"
    /\ users' = [u \in DOMAIN users |->
                    IF users[u].curator_idx = h.idx
                    THEN [users[u] EXCEPT !.curator_idx = NewCurator(h.all_cur, h.idx)]
                    ELSE users[u]]
    /\ curators' = DeleteCurator(h.idx)
    /\ handlers' = Retire(h)
    /\ UNCHANGED <<submissions_closed, curator_seq, curator_tokens, next_curator_idx, submissions, sub_seq, fsm,
                   presented, clock, hist>>

\* a stored lineup, a cursor and registered participants of its curators
InitRegistry ==
    /\ \E S \in (SUBSET (1..MaxLineup)) \ {{}} :
          /\ curators = Lineup(S)
          /\ next_curator_idx \in S
          /\ users \in [RegistryUsers -> [curator_idx : S, points : {0}]]
    /\ curator_seq = LastIdx(curators)
    /\ curator_tokens = {}
    /\ submissions_closed = FALSE
    /\ submissions = <<>>
    /\ sub_seq = 0
    /\ fsm = [p \in RegistryUsers |-> IdleFsm]
    /\ handlers = EmptyBag
    /\ presented = {}
    /\ clock = 0
    /\ hist = [InitHist EXCEPT !.cursor0 = next_curator_idx]

NextRegistry ==
    \/ \E c \in CuratorTgs : cmd_delete_curator(c)
    \/ \E c \in CuratorTgs : confirm_deletion_start(c)
    \/ \E h \in InFlight : confirm_deletion_row(h)
    \/ \E h \in InFlight : confirm_deletion_list(h)
    \/ \E h \in InFlight : confirm_deletion_write(h)

SpecRegistry == InitRegistry /\ [][NextRegistry]_vars

----------------------------------------------------------------------------
(* Curator invitations: gen_curator_link, cmd_start with an invite token *)

\* invite links the administrator generates
MaxTokens == 1
\* '/start curator_invite_<token>' messages delivered
MaxInvites == 2

\* actors who open an invite link: the first curator of the lineups and a newcomer
Invitees == {CuratorRow(1).tg, CuratorRow(3).tg}

\* /gen_curator_link of the administrator: secrets.token_urlsafe gives a token
\* never seen before; INSERT OR REPLACE INTO meta ('curator_token_<token>', 'valid')
gen_curator_link ==
    /\ hist.tokens < MaxTokens
    /\ curator_tokens' = curator_tokens \cup {hist.tokens + 1}
    /\ hist' = [hist EXCEPT !.tokens = @ + 1]
    /\ UNCHANGED <<submissions_closed, curators, curator_seq, next_curator_idx, users, submissions, sub_seq, fsm,
                   handlers, presented, clock>>

\* '/start curator_invite_<token>': the coroutine starts
cmd_start_invite(a, token) ==
    /\ token \in 1..hist.tokens
    /\ hist.invites < MaxInvites
    /\ NumInFlight < MaxInFlight
    /\ hist' = [hist EXCEPT !.invites = @ + 1]
    /\ handlers' = Spawn([kind |-> "cmd_start_invite", pc |-> "iv_token", tg |-> a,
                          token |-> token, count |-> 0])
    /\ UNCHANGED <<submissions_closed, curators, curator_seq, curator_tokens, next_curator_idx, users, submissions,
                   sub_seq, fsm, presented, clock>>

\* SELECT value FROM meta WHERE key='curator_token_<token>': not 'valid' is refused
cmd_start_invite_token(h) ==
    /\ h.kind = "cmd_start_invite" /\ h.pc = "iv_token"
    /\ handlers' = IF h.token \in curator_tokens
                   THEN Move(h, [h EXCEPT !.pc = "iv_count"])
                   ELSE Retire(h)
    /\ UNCHANGED <<submissions_closed, curators, curator_seq, curator_tokens, next_curator_idx, users, submissions,
                   sub_seq, fsm, presented, clock, hist>>

\* SELECT COUNT(*) FROM curators WHERE telegram_id=?
cmd_start_invite_count(h) ==
    /\ h.kind = "cmd_start_invite" /\ h.pc = "iv_count"
    /\ handlers' = Move(h, [h EXCEPT !.pc = "iv_insert",
                                     !.count = Cardinality({k \in DOMAIN curators :
                                                               curators[k].tg = h.tg})])
    /\ UNCHANGED <<submissions_closed, curators, curator_seq, curator_tokens, next_curator_idx, users, submissions,
                   sub_seq, fsm, presented, clock, hist>>

\* count == 0: INSERT INTO curators (fio, telegram_id); commit (idx is
\* AUTOINCREMENT: one more than the largest ever given)
cmd_start_invite_insert(h) ==
    /\ h.kind = "cmd_start_invite" /\ h.pc = "iv_insert"
    /\ IF h.count = 0
       THEN /\ curators' = Append(curators, [idx |-> curator_seq + 1, tg |-> h.tg])
            /\ curator_seq' = curator_seq + 1
            /\ hist' = [hist EXCEPT !.joined = Append(@, h.token)]
       ELSE UNCHANGED <<curators, curator_seq, hist>>
    /\ handlers' = Move(h, [h EXCEPT !.pc = "iv_delete"])
    /\ UNCHANGED <<submissions_closed, curator_tokens, next_curator_idx, users, submissions, sub_seq, fsm,
                   presented, clock>>

\* message.answer (a failed send raises), then DELETE FROM meta WHERE key=?; commit
cmd_start_invite_delete(h) ==
    /\ h.kind = "cmd_start_invite" /\ h.pc = "iv_delete"
    /\ \E delivered \in BOOLEAN :
          curator_tokens' = IF delivered THEN curator_tokens \ {h.token} ELSE curator_tokens
    /\ handlers' = Retire(h)
    /\ UNCHANGED <<submissions_closed, curators, curator_seq, next_curator_idx, users, submissions, sub_seq, fsm,
                   presented, clock, hist>>

----------------------------------------------------------------------------
(* Ring specification: registrations while curators are added and removed *)

\* curators the administrator asks to remove in the ring model
RingTgs == {CuratorRow(1).tg, CuratorRow(2).tg}

\* the curator tables the ring model starts from: a fresh database, or two curators
RingLineups == {{}, {1, 2}}

\* participants who register in the ring model
RingUsers == {1, 2}

\* updates delivered to the ring model: groups sent, links generated, invite
\* links opened, removals confirmed
MaxRingEvents == 3

\* confirmation keyboards the administrator asks for in the ring model
MaxKeyboards == 1

\* a fresh or a stored curator table and a cursor row (or none); the
\* participants have sent their name and are asked for their group
InitRing ==
    /\ \E S \in RingLineups : curators = Lineup(S)
    /\ curator_seq = LastIdx(curators)
    /\ curator_tokens = {}
    /\ submissions_closed = FALSE
    /\ next_curator_idx \in {NoRow, 1, 2}
    /\ users = <<>>
    /\ submissions = <<>>
    /\ sub_seq = 0
    /\ fsm = [p \in RingUsers |-> [IdleFsm EXCEPT !.state = "waiting_for_group"]]
    /\ handlers = EmptyBag
    /\ presented = {}
    /\ clock = 0
    /\ hist = [InitHist EXCEPT !.cursor0 = next_curator_idx]

\* the ring model stops taking updates after MaxRingEvents of them
RingBudget == hist.runs + hist.tokens + hist.invites + hist.events < MaxRingEvents

NextRing ==
    \/ \E p \in RingUsers : RingBudget /\ process_group_start(p)
    \/ \E h \in InFlight : get_next_curator_cursor(h)
    \/ \E h \in InFlight : get_next_curator_list(h)
    \/ \E h \in InFlight : get_next_curator_write(h)
    \/ \E h \in InFlight : process_group_insert(h)
    \/ \E h \in InFlight : process_group_notify(h)
    \/ RingBudget /\ gen_curator_link
    \/ \E a \in Invitees, token \in 1..MaxTokens : RingBudget /\ cmd_start_invite(a, token)
    \/ \E h \in InFlight : cmd_start_invite_token(h)
    \/ \E h \in InFlight : cmd_start_invite_count(h)
    \/ \E h \in InFlight : cmd_start_invite_insert(h)
    \/ \E h \in InFlight : cmd_start_invite_delete(h)
    \/ \E c \in RingTgs : Cardinality(presented) < MaxKeyboards /\ cmd_delete_curator(c)
    \/ \E c \in RingTgs : RingBudget /\ confirm_deletion_start(c)
    \/ \E h \in InFlight : confirm_deletion_row(h)
    \/ \E h \in InFlight : confirm_deletion_list(h)
    \/ \E h \in InFlight : confirm_deletion_write(h)

SpecRing == InitRing /\ [][NextRing]_vars

----------------------------------------------------------------------------
(* Curator registry claims *)

CuratorOrds == {curators[k].idx : k \in DOMAIN curators}

\* C11: a curator removal, at least two curators existing, moves every
\* participant of the removed curator to the curator that follows it in the
\* ring of ascending ordinals; afterwards no participant is assigned to the
\* removed curator, no moved participant has a null curator, and the
\* participants of other curators are unchanged.
RemovalReassigns ==
    [][\A h \in InFlight :
         (confirm_deletion_write(h) /\ h.idx \in CuratorOrds /\ Cardinality(CuratorOrds) >= 2) =>
            \A u \in DOMAIN users :
               /\ users'[u].curator_idx # h.idx
               /\ users'[u].curator_idx # Null
               /\ users'[u] = IF users[u].curator_idx = h.idx
                              THEN [users[u] EXCEPT !.curator_idx = RingSucc(CuratorOrds, h.idx)]
                              ELSE users[u]
      ]_vars

\* C12: the removal of the last remaining curator is refused and changes
\* neither the curator list, nor an assignment, nor the cursor; hence a
\* non-empty curator list never becomes empty through removals.
LastCuratorStays ==
    /\ curators # <<>>
    /\ next_curator_idx = hist.cursor0

----------------------------------------------------------------------------
(* Submission state store: queries *)

Subs == DOMAIN submissions

\* SELECT COUNT(*) ... WHERE user_id=? AND task_id=? AND status='accepted' > 0
submission_accepted_for_task(user_id, task_id) ==
    \E s \in Subs : /\ submissions[s].user_id = user_id
                    /\ submissions[s].task_id = task_id
                    /\ submissions[s].status = "accepted"

\* variant: every row that is not accepted counts as pending
submission_unresolved_for_task(user_id, task_id) ==
    \E s \in Subs : /\ submissions[s].user_id = user_id
                    /\ submissions[s].task_id = task_id
                    /\ submissions[s].status # "accepted"

\* SELECT COUNT(*) ... WHERE user_id=? AND task_id=? AND status='pending' > 0
submission_pending_for_task(user_id, task_id) ==
    \E s \in Subs : /\ submissions[s].user_id = user_id
                    /\ submissions[s].task_id = task_id
                    /\ submissions[s].status = "pending"

\* INSERT INTO submissions (...) VALUES (user, task, 'pending', ...); commit
InsertPending(h) ==
    [s \in Subs \cup {sub_seq + 1} |->
        IF s = sub_seq + 1
        THEN [user_id |-> h.user, task_id |-> h.task_id, status |-> "pending",
              content_type |-> h.content_type, content |-> h.content,
              curator_comment |-> "", created_at |-> h.created_at]
        ELSE submissions[s]]

\* UPDATE submissions SET status=? WHERE id=? (no row: nothing changes)
SetStatus(sid, st) ==
    IF sid \in Subs THEN [submissions EXCEPT ![sid].status = st] ELSE submissions

\* DELETE FROM submissions WHERE id=?
DeleteRow(sid) == [s \in Subs \ {sid} |-> submissions[s]]

----------------------------------------------------------------------------
(* Participant side: on_send_answer, receive_answer *)

\* the tasks and the actors of the review model
ReviewTasks == {2}
ReviewUsers == {1}
ReviewCurators == {CuratorRow(1).tg}
MessageKinds == {"text", "photo"}

\* SELECT value FROM meta WHERE key='submissions_closed'
is_submissions_closed == submissions_closed

\* 'send_<task>' pressed: is_submissions_closed() is read; closed: alert and
\* return, else the coroutine goes on to its checks
on_send_answer_start(p, t) ==
    /\ hist.events < MaxEvents
    /\ NumInFlight < MaxInFlight
    /\ handlers' = IF is_submissions_closed THEN handlers
                   ELSE Spawn([kind |-> "on_send_answer", pc |-> "sa_user", user |-> p,
                               task_id |-> t])
    /\ hist' = [hist EXCEPT !.events = @ + 1]
    /\ UNCHANGED <<submissions_closed, curators, curator_seq, curator_tokens, next_curator_idx, users, submissions, sub_seq, fsm,
                   presented, clock>>

\* variant: a registered participant passes whatever curator_idx holds
on_send_answer_user_any(h) ==
    /\ h.kind = "on_send_answer" /\ h.pc = "sa_user"
    /\ handlers' = IF h.user \notin DOMAIN users THEN Retire(h)
                   ELSE Move(h, [h EXCEPT !.pc = "sa_acc"])
    /\ hist' = IF h.user \notin DOMAIN users
               THEN [hist EXCEPT !.refused = @ \cup {h.user}]
               ELSE hist
    /\ UNCHANGED <<submissions_closed, curators, curator_seq, curator_tokens, next_curator_idx, users, submissions, sub_seq, fsm,
                   presented, clock>>

\* SELECT curator_idx FROM users WHERE tg_id=?: not registered, or no curator
on_send_answer_user(h) ==
    /\ h.kind = "on_send_answer" /\ h.pc = "sa_user"
    /\ handlers' = IF h.user \notin DOMAIN users THEN Retire(h)
                   ELSE IF users[h.user].curator_idx = Null THEN Retire(h)
                   ELSE Move(h, [h EXCEPT !.pc = "sa_acc"])
    /\ hist' = IF h.user \notin DOMAIN users \/ users[h.user].curator_idx = Null
               THEN [hist EXCEPT !.refused = @ \cup {h.user}]
               ELSE hist
    /\ UNCHANGED <<submissions_closed, curators, curator_seq, curator_tokens, next_curator_idx, users, submissions, sub_seq, fsm,
                   presented, clock>>

on_send_answer_accepted(h) ==
    /\ h.kind = "on_send_answer" /\ h.pc = "sa_acc"
    /\ handlers' = IF submission_accepted_for_task(h.user, h.task_id) THEN Retire(h)
                   ELSE Move(h, [h EXCEPT !.pc = "sa_pend"])
    /\ UNCHANGED <<submissions_closed, curators, curator_seq, curator_tokens, next_curator_idx, users, submissions, sub_seq, fsm,
                   presented, clock, hist>>

\* pending check; task 14 goes on to the accepted count; admitted:
\* state.update_data(task_id=task_id), then the prompt is sent
on_send_answer_pending(h) ==
    /\ h.kind = "on_send_answer" /\ h.pc = "sa_pend"
    /\ IF submission_pending_for_task(h.user, h.task_id)
       THEN /\ handlers' = Retire(h)
            /\ UNCHANGED fsm
       ELSE IF h.task_id = 14
       THEN /\ handlers' = Move(h, [h EXCEPT !.pc = "sa_count"])
            /\ UNCHANGED fsm
       ELSE /\ handlers' = Move(h, [h EXCEPT !.pc = "sa_prompt"])
            /\ fsm' = [fsm EXCEPT ![h.user].task_id = h.task_id]
    /\ UNCHANGED <<submissions_closed, curators, curator_seq, curator_tokens, next_curator_idx, users, submissions, sub_seq,
                   presented, clock, hist>>

\* SELECT COUNT(*) FROM submissions WHERE user_id=? AND status='accepted'
user_has_accepted_count(user_id) ==
    Cardinality({s \in Subs : submissions[s].user_id = user_id
                                /\ submissions[s].status = "accepted"})

\* task 14: accepted_count < 3 is refused
Unlocked(user_id) == user_has_accepted_count(user_id) >= 3

\* the accepted count of task 14: refused, or admitted as the other tasks are
on_send_answer_count(h) ==
    /\ h.kind = "on_send_answer" /\ h.pc = "sa_count"
    /\ IF Unlocked(h.user)
       THEN /\ handlers' = Move(h, [h EXCEPT !.pc = "sa_prompt"])
            /\ fsm' = [fsm EXCEPT ![h.user].task_id = h.task_id]
       ELSE /\ handlers' = Retire(h)
            /\ UNCHANGED fsm
    /\ UNCHANGED <<submissions_closed, curators, curator_seq, curator_tokens, next_curator_idx, users, submissions, sub_seq,
                   presented, clock, hist>>

\* cb.message.answer(prompt) returned: state.set_state(waiting_for_answer);
\* a failed send raises before the state is set
on_send_answer_prompt(h) ==
    /\ h.kind = "on_send_answer" /\ h.pc = "sa_prompt"
    /\ \E delivered \in BOOLEAN :
          fsm' = IF delivered THEN [fsm EXCEPT ![h.user].state = "waiting_for_answer"]
                 ELSE fsm
    /\ handlers' = Retire(h)
    /\ UNCHANGED <<submissions_closed, curators, curator_seq, curator_tokens, next_curator_idx, users, submissions, sub_seq,
                   presented, clock, hist>>

\* valid = required type matches the message (text / photo / video answers)
ValidAnswer(required, kind) ==
    \/ required = "text" /\ kind = "text"
    \/ required = "photo" /\ kind = "photo"
    \/ required = "video" /\ kind = "video"

\* a message in state waiting_for_answer: task_by_id raises when the FSM data
\* holds no task_id, an answer of the wrong kind is refused at once, a valid
\* one reads now = utcnow() and goes to the insert
receive_answer_start(p, kind) ==
    /\ fsm[p].state = "waiting_for_answer"
    /\ hist.events < MaxEvents
    /\ NumInFlight < MaxInFlight
    /\ hist' = [hist EXCEPT !.events = @ + 1]
    /\ IF fsm[p].task_id # Null /\ ValidAnswer(task_by_id(fsm[p].task_id).type, kind)
       THEN /\ handlers' = Spawn([kind |-> "receive_answer", pc |-> "ra_insert", user |-> p,
                                  task_id |-> fsm[p].task_id, content_type |-> kind,
                                  content |-> <<[kind |-> kind, ref |-> clock + 1]>>,
                                  created_at |-> clock + 1])
            /\ clock' = clock + 1
       ELSE UNCHANGED <<handlers, clock>>
    /\ UNCHANGED <<submissions_closed, curators, curator_seq, curator_tokens, next_curator_idx, users, submissions, sub_seq, fsm, presented>>

receive_answer_insert(h) ==
    /\ h.kind = "receive_answer" /\ h.pc = "ra_insert"
    /\ submissions' = InsertPending(h)
    /\ sub_seq' = sub_seq + 1
    /\ handlers' = Move(h, [h EXCEPT !.pc = "ra_notify"])
    /\ UNCHANGED <<submissions_closed, curators, curator_seq, curator_tokens, next_curator_idx, users, fsm, presented, clock, hist>>

\* message.answer, cmd_tasks, notify_curator_new_answer, then state.clear();
\* a failed send raises and the state is left as it was
receive_answer_notify(h) ==
    /\ h.kind = "receive_answer" /\ h.pc = "ra_notify"
    /\ \E delivered \in BOOLEAN :
          fsm' = IF delivered THEN [fsm EXCEPT ![h.user] = IdleFsm] ELSE fsm
    /\ handlers' = Retire(h)
    /\ UNCHANGED <<submissions_closed, curators, curator_seq, curator_tokens, next_curator_idx, users, submissions, sub_seq,
                   presented, clock, hist>>

----------------------------------------------------------------------------
(* Review queue dispatcher: send_next_submission_to_curator *)

\* (SELECT idx FROM curators WHERE telegram_id=?)
CuratorIdxOf(tg) ==
    IF \E k \in DOMAIN curators : curators[k].tg = tg
    THEN curators[CHOOSE k \in DOMAIN curators : curators[k].tg = tg].idx
    ELSE Null

\* pending submissions of the participants assigned to the curator
Queue(tg) ==
    {s \in Subs : /\ submissions[s].status = "pending"
                  /\ submissions[s].user_id \in DOMAIN users
                  /\ CuratorIdxOf(tg) # Null
                  /\ users[submissions[s].user_id].curator_idx = CuratorIdxOf(tg)}

\* ORDER BY s.created_at ASC LIMIT 1
Oldest(Q) == CHOOSE s \in Q : \A r \in Q : submissions[s].created_at <= submissions[r].created_at

send_next_submission_to_curator(tg) ==
    [kind |-> "send_next", pc |-> "d_select", curator_tg |-> tg, sub |-> Null,
     user_id |-> Null, task_id |-> Null]

\* the SELECT of the loop: queue empty ("all checked"), or a candidate
dispatcher_select(h) ==
    /\ h.kind = "send_next" /\ h.pc = "d_select"
    /\ handlers' = IF Queue(h.curator_tg) = {} THEN Retire(h)
                   ELSE LET s == Oldest(Queue(h.curator_tg))
                        IN Move(h, [h EXCEPT !.pc = "d_check", !.sub = s,
                                             !.user_id = submissions[s].user_id,
                                             !.task_id = submissions[s].task_id])
    /\ UNCHANGED <<submissions_closed, curators, curator_seq, curator_tokens, next_curator_idx, users, submissions, sub_seq, fsm,
                   presented, clock, hist>>

\* already_accepted? then the DELETE follows; else the submission and its
\* accept / reject buttons are sent to the curator
dispatcher_check(h) ==
    /\ h.kind = "send_next" /\ h.pc = "d_check"
    /\ IF submission_accepted_for_task(h.user_id, h.task_id)
       THEN /\ handlers' = Move(h, [h EXCEPT !.pc = "d_delete"])
            /\ UNCHANGED presented
       ELSE /\ handlers' = Retire(h)
            /\ presented' = presented \cup {<<h.curator_tg, h.sub>>}
    /\ UNCHANGED <<submissions_closed, curators, curator_seq, curator_tokens, next_curator_idx, users, submissions, sub_seq, fsm,
                   clock, hist>>

\* DELETE FROM submissions WHERE id=?; commit; continue
dispatcher_delete(h) ==
    /\ h.kind = "send_next" /\ h.pc = "d_delete"
    /\ submissions' = DeleteRow(h.sub)
    /\ handlers' = Move(h, [h EXCEPT !.pc = "d_select", !.sub = Null,
                                     !.user_id = Null, !.task_id = Null])
    /\ UNCHANGED <<submissions_closed, curators, curator_seq, curator_tokens, next_curator_idx, users, sub_seq, fsm, presented, clock, hist>>

\* 'Начать проверку' pressed
curator_start_check(c) ==
    /\ hist.events < MaxEvents
    /\ NumInFlight < MaxInFlight
    /\ handlers' = Spawn(send_next_submission_to_curator(c))
    /\ hist' = [hist EXCEPT !.events = @ + 1]
    /\ UNCHANGED <<submissions_closed, curators, curator_seq, curator_tokens, next_curator_idx, users, submissions, sub_seq, fsm,
                   presented, clock>>

----------------------------------------------------------------------------
(* Decision processor: curator_accept, curator_reject, handle_curator_reject_reason *)

\* variant: the decision does not look at the status of the row
VerdictUnchecked(sid) ==
    IF sid \notin Subs THEN "NotFound" ELSE "proceed"

\* the first SELECT of a decision: row missing, status != 'pending', or go on
Verdict(sid) ==
    IF sid \notin Subs THEN "NotFound"
    ELSE IF submissions[sid].status # "pending" THEN "AlreadyResolved"
    ELSE "proceed"

\* 'cur_accept_<id>' pressed on a review message
curator_accept_start(c, sid) ==
    /\ <<c, sid>> \in presented
    /\ hist.events < MaxEvents
    /\ NumInFlight < MaxInFlight
    /\ hist' = [hist EXCEPT !.events = @ + 1, !.verdict = Verdict(sid)]
    /\ handlers' = IF Verdict(sid) = "proceed"
                   THEN Spawn([kind |-> "curator_accept", pc |-> "ac_check", curator_tg |-> c,
                               sub |-> sid, user_id |-> submissions[sid].user_id,
                               task_id |-> submissions[sid].task_id, already |-> FALSE])
                   ELSE handlers
    /\ UNCHANGED <<submissions_closed, curators, curator_seq, curator_tokens, next_curator_idx, users, submissions, sub_seq, fsm,
                   presented, clock>>

\* already_accepted = COUNT(accepted of the same user and task) > 0
curator_accept_check(h) ==
    /\ h.kind = "curator_accept" /\ h.pc = "ac_check"
    /\ handlers' = Move(h, [h EXCEPT !.pc = "ac_write",
                                     !.already = submission_accepted_for_task(h.user_id, h.task_id)])
    /\ UNCHANGED <<submissions_closed, curators, curator_seq, curator_tokens, next_curator_idx, users, submissions, sub_seq, fsm,
                   presented, clock, hist>>

\* UPDATE users SET points = points + ? WHERE tg_id=?
AddPoints(user_id, pts) ==
    IF user_id \in DOMAIN users THEN [users EXCEPT ![user_id].points = @ + pts] ELSE users

\* variant: the write ignores the sibling check and always accepts
curator_accept_write_always(h) ==
    /\ h.kind = "curator_accept" /\ h.pc = "ac_write"
    /\ submissions' = SetStatus(h.sub, "accepted")
    /\ users' = AddPoints(h.user_id, task_by_id(h.task_id).points)
    /\ hist' = [hist EXCEPT !.awards = @ (+) SetToBag({h.sub})]
    /\ handlers' = Move(h, [h EXCEPT !.pc = "ac_notify"])
    /\ UNCHANGED <<submissions_closed, curators, curator_seq, curator_tokens, next_curator_idx, sub_seq, fsm, presented, clock>>

\* already accepted: status 'duplicate', commit, alert, return;
\* else status 'accepted' and the points, commit
curator_accept_write(h) ==
    /\ h.kind = "curator_accept" /\ h.pc = "ac_write"
    /\ IF h.already
       THEN /\ submissions' = SetStatus(h.sub, "duplicate")
            /\ handlers' = Retire(h)
            /\ UNCHANGED <<users, hist>>
       ELSE /\ submissions' = SetStatus(h.sub, "accepted")
            /\ users' = AddPoints(h.user_id, task_by_id(h.task_id).points)
            /\ hist' = [hist EXCEPT !.awards = @ (+) SetToBag({h.sub})]
            /\ handlers' = Move(h, [h EXCEPT !.pc = "ac_notify"])
    /\ UNCHANGED <<submissions_closed, curators, curator_seq, curator_tokens, next_curator_idx, sub_seq, fsm, presented, clock>>

\* bot.send_message(user_id, ...) (a failed send raises), the buttons are
\* removed, then send_next_submission_to_curator(curator_tg)
curator_accept_notify(h) ==
    /\ h.kind = "curator_accept" /\ h.pc = "ac_notify"
    /\ \E delivered \in BOOLEAN :
          handlers' = IF delivered
                      THEN Move(h, send_next_submission_to_curator(h.curator_tg))
                      ELSE Retire(h)
    /\ UNCHANGED <<submissions_closed, curators, curator_seq, curator_tokens, next_curator_idx, users, submissions, sub_seq, fsm,
                   presented, clock, hist>>

\* 'cur_reject_<id>' pressed on a review message
curator_reject_start(c, sid) ==
    /\ <<c, sid>> \in presented
    /\ hist.events < MaxEvents
    /\ NumInFlight < MaxInFlight
    /\ hist' = [hist EXCEPT !.events = @ + 1, !.verdict = Verdict(sid)]
    /\ handlers' = IF Verdict(sid) = "proceed"
                   THEN Spawn([kind |-> "curator_reject", pc |-> "rj_ask", curator_tg |-> c,
                               sub |-> sid])
                   ELSE handlers
    /\ UNCHANGED <<submissions_closed, curators, curator_seq, curator_tokens, next_curator_idx, users, submissions, sub_seq, fsm,
                   presented, clock>>

\* the buttons are removed and the reason is asked for (a failed send raises),
\* then state.update_data(reject_submission=submission_id)
curator_reject_ask(h) ==
    /\ h.kind = "curator_reject" /\ h.pc = "rj_ask"
    /\ \E delivered \in BOOLEAN :
          fsm' = IF delivered THEN [fsm EXCEPT ![h.curator_tg].reject_submission = h.sub]
                 ELSE fsm
    /\ handlers' = Retire(h)
    /\ UNCHANGED <<submissions_closed, curators, curator_seq, curator_tokens, next_curator_idx, users, submissions, sub_seq,
                   presented, clock, hist>>

Reasons == {"blurry photo"}

\* any other message of an actor whose FSM data holds reject_submission
\* (without it the handler returns at once)
handle_curator_reject_reason_start(c, text) ==
    /\ fsm[c].reject_submission # Null
    /\ hist.events < MaxEvents
    /\ NumInFlight < MaxInFlight
    /\ hist' = [hist EXCEPT !.events = @ + 1]
    /\ handlers' = Spawn([kind |-> "reject_reason", pc |-> "rr_read", curator_tg |-> c,
                          sub |-> fsm[c].reject_submission, text |-> text,
                          user_id |-> Null, task_id |-> Null])
    /\ UNCHANGED <<submissions_closed, curators, curator_seq, curator_tokens, next_curator_idx, users, submissions, sub_seq, fsm,
                   presented, clock>>

\* user_id, task_id = await cur.fetchone(): no row raises
handle_curator_reject_reason_read(h) ==
    /\ h.kind = "reject_reason" /\ h.pc = "rr_read"
    /\ handlers' = IF h.sub \notin Subs THEN Retire(h)
                   ELSE Move(h, [h EXCEPT !.pc = "rr_write",
                                          !.user_id = submissions[h.sub].user_id,
                                          !.task_id = submissions[h.sub].task_id])
    /\ UNCHANGED <<submissions_closed, curators, curator_seq, curator_tokens, next_curator_idx, users, submissions, sub_seq, fsm,
                   presented, clock, hist>>

\* UPDATE submissions SET status='rejected', curator_comment=? WHERE id=?; commit
RejectRow(sid, text) ==
    IF sid \in Subs
    THEN [submissions EXCEPT ![sid].status = "rejected", ![sid].curator_comment = text]
    ELSE submissions

handle_curator_reject_reason_write(h) ==
    /\ h.kind = "reject_reason" /\ h.pc = "rr_write"
    /\ submissions' = RejectRow(h.sub, h.text)
    /\ handlers' = Move(h, [h EXCEPT !.pc = "rr_notify"])
    /\ UNCHANGED <<submissions_closed, curators, curator_seq, curator_tokens, next_curator_idx, users, sub_seq, fsm, presented, clock, hist>>

\* bot.send_message(user_id, reason) (a failed send raises), state.clear(),
\* then send_next_submission_to_curator
handle_curator_reject_reason_notify(h) ==
    /\ h.kind = "reject_reason" /\ h.pc = "rr_notify"
    /\ \E delivered \in BOOLEAN :
          IF delivered
          THEN /\ fsm' = [fsm EXCEPT ![h.curator_tg] = IdleFsm]
               /\ handlers' = Move(h, send_next_submission_to_curator(h.curator_tg))
          ELSE /\ fsm' = fsm
               /\ handlers' = Retire(h)
    /\ UNCHANGED <<submissions_closed, curators, curator_seq, curator_tokens, next_curator_idx, users, submissions, sub_seq,
                   presented, clock, hist>>

----------------------------------------------------------------------------
(* Review engine specification: one curator, one registered participant *)

Init ==
    /\ curators = Lineup({1})
    /\ curator_seq = LastIdx(curators)
    /\ curator_tokens = {}
    /\ submissions_closed = FALSE
    /\ next_curator_idx = 1
    /\ users = [p \in ReviewUsers |-> [curator_idx |-> 1, points |-> 0]]
    /\ submissions = <<>>
    /\ sub_seq = 0
    /\ fsm = [a \in ReviewUsers \cup ReviewCurators |-> IdleFsm]
    /\ handlers = EmptyBag
    /\ presented = {}
    /\ clock = 0
    /\ hist = [InitHist EXCEPT !.cursor0 = 1]

Next ==
    \/ \E p \in ReviewUsers, t \in ReviewTasks : on_send_answer_start(p, t)
    \/ \E h \in InFlight : on_send_answer_user(h)
    \/ \E h \in InFlight : on_send_answer_accepted(h)
    \/ \E h \in InFlight : on_send_answer_pending(h)
    \/ \E h \in InFlight : on_send_answer_prompt(h)
    \/ \E p \in ReviewUsers, kind \in MessageKinds : receive_answer_start(p, kind)
    \/ \E h \in InFlight : receive_answer_insert(h)
    \/ \E h \in InFlight : receive_answer_notify(h)
    \/ \E c \in ReviewCurators : curator_start_check(c)
    \/ \E h \in InFlight : dispatcher_select(h)
    \/ \E h \in InFlight : dispatcher_check(h)
    \/ \E h \in InFlight : dispatcher_delete(h)
    \/ \E c \in ReviewCurators, sid \in 1..sub_seq : curator_accept_start(c, sid)
    \/ \E h \in InFlight : curator_accept_check(h)
    \/ \E h \in InFlight : curator_accept_write(h)
    \/ \E h \in InFlight : curator_accept_notify(h)
    \/ \E c \in ReviewCurators, sid \in 1..sub_seq : curator_reject_start(c, sid)
    \/ \E h \in InFlight : curator_reject_ask(h)
    \/ \E c \in ReviewCurators, text \in Reasons : handle_curator_reject_reason_start(c, text)
    \/ \E h \in InFlight : handle_curator_reject_reason_read(h)
    \/ \E h \in InFlight : handle_curator_reject_reason_write(h)
    \/ \E h \in InFlight : handle_curator_reject_reason_notify(h)

Spec == Init /\ [][Next]_vars

----------------------------------------------------------------------------
(* Review engine claims *)

SubsOf(p, t, st) ==
    {s \in Subs : /\ submissions[s].user_id = p
                  /\ submissions[s].task_id = t
                  /\ submissions[s].status = st}

Terminal == {"accepted", "rejected", "duplicate"}

\* C1 (I1): for each (participant, task) at most one submission is pending,
\* whatever path recorded it and however the submission events interleave.
OnePendingPerPair ==
    \A p \in DOMAIN users, t \in DOMAIN TASKS : Cardinality(SubsOf(p, t, "pending")) <= 1

\* C2 (I2): for each (participant, task) at most one submission is accepted,
\* also when two accept decisions on two pending submissions of the pair interleave.
OneAcceptedPerPair ==
    \A p \in DOMAIN users, t \in DOMAIN TASKS : Cardinality(SubsOf(p, t, "accepted")) <= 1

\* C3: accept is a compare-and-set on status: however two accepts of the same
\* pending submission interleave, one of them succeeds and the task's points
\* are added for that submission once.
AcceptAwardsOnce ==
    \A s \in 1..sub_seq : CopiesIn(s, hist.awards) <= 1

RECURSIVE SumPoints(_)
SumPoints(S) ==
    IF S = {} THEN 0
    ELSE LET s == CHOOSE x \in S : TRUE
         IN task_by_id(submissions[s].task_id).points + SumPoints(S \ {s})

\* C4: a participant's points equal the sum of the point values of the tasks
\* of the participant's accepted submissions.
PointsMatchAccepted ==
    \A p \in DOMAIN users :
        users[p].points =
            SumPoints({s \in Subs : submissions[s].user_id = p /\ submissions[s].status = "accepted"})

\* another submission of the same participant and task is accepted
OtherAccepted(h) ==
    \E s \in Subs \ {h.sub} : /\ submissions[s].user_id = h.user_id
                              /\ submissions[s].task_id = h.task_id
                              /\ submissions[s].status = "accepted"

\* C5: an accept of a pending submission whose (participant, task) pair has
\* another accepted submission when accept checks for one makes the submission
\* duplicate, never accepted, adds no points and ends without notifying the
\* participant (the coroutine returns after the write).
AcceptOfDuplicate ==
    [][\A h \in InFlight :
         /\ (curator_accept_check(h) /\ OtherAccepted(h)) =>
                [h EXCEPT !.pc = "ac_write", !.already = TRUE] \in BagToSet(handlers')
         /\ (curator_accept_write(h) /\ h.already) =>
                /\ DOMAIN submissions' = Subs
                /\ h.sub \in Subs => submissions'[h.sub].status = "duplicate"
                /\ \A s \in Subs \ {h.sub} : submissions'[s] = submissions[s]
                /\ users' = users
                /\ hist'.awards = hist.awards
                /\ BagCardinality(handlers') = NumInFlight - 1
      ]_vars

\* a submission that was never accepted is duplicate beside an accepted
\* submission of the same pair, and the points were added once
DuplicateBesideAccepted ==
    \E s1, s2 \in Subs :
        /\ s1 # s2
        /\ submissions[s1].user_id = submissions[s2].user_id
        /\ submissions[s1].task_id = submissions[s2].task_id
        /\ submissions[s1].status = "accepted"
        /\ submissions[s2].status = "duplicate"
        /\ CopiesIn(s2, hist.awards) = 0
        /\ users[submissions[s1].user_id].points = task_by_id(submissions[s1].task_id).points

\* C6: an accept or a reject pressed for a submission that is no longer
\* pending is answered AlreadyResolved and changes no submission, no comment,
\* no points and no FSM data, and starts nothing that could notify anyone.
DecisionOnResolvedIsNoop ==
    [][\A c \in ReviewCurators, sid \in Subs :
         ((curator_accept_start(c, sid) \/ curator_reject_start(c, sid))
            /\ submissions[sid].status \in Terminal) =>
                /\ hist'.verdict = "AlreadyResolved"
                /\ UNCHANGED <<submissions, users, fsm, handlers, presented>>
      ]_vars

\* a decision was answered AlreadyResolved
DecisionRefused ==
    /\ hist.verdict = "AlreadyResolved"
    /\ \E s \in Subs : submissions[s].status \in Terminal

\* C7: terminal states are final: once accepted, rejected or duplicate, a
\* submission keeps its status and its reviewer comment through every later
\* operation (accept, reject, rejection-reason message, dispatcher).
TerminalIsFinal ==
    [][\A s \in Subs :
         submissions[s].status \in Terminal =>
             /\ s \in DOMAIN submissions'
             /\ submissions'[s].status = submissions[s].status
             /\ submissions'[s].curator_comment = submissions[s].curator_comment
      ]_vars

----------------------------------------------------------------------------
(* Media aggregation for the photo_video task: receive_answer, handle_done_command *)

\* photos and videos a participant sends in the aggregation models
MaxFragments == 11
\* updates (presses, fragments, '/done', reason messages) of the gate model
MaxMediaEvents == 6

\* len(prev_media) < 10: the answer is sent when the tenth fragment is stored
MediaCap == 10
FragmentKinds == {"photo", "video"}
MediaUsers == {1}
SuperTask == 14

\* collected = prev_media[:10]
FirstTen(prev_media) == SubSeq(prev_media, 1, MediaCap)

\* a photo or a video in state waiting_for_answer for a photo_video task:
\* prev_media += media_ids; state.update_data(collected_media=prev_media);
\* below the cap the handler only answers (media_group_id decides whether it
\* does) and returns, at the cap it goes on to record the answer
receive_fragment(p, kind) ==
    /\ fsm[p].state = "waiting_for_answer"
    /\ fsm[p].task_id # Null
    /\ task_by_id(fsm[p].task_id).type = "photo_video"
    /\ hist.frags < MaxFragments
    /\ NumInFlight < MaxInFlight
    /\ hist' = [hist EXCEPT !.frags = @ + 1]
    /\ LET prev_media == Append(fsm[p].collected_media, [kind |-> kind, ref |-> hist.frags + 1])
       IN /\ fsm' = [fsm EXCEPT ![p].collected_media = prev_media]
          /\ handlers' = IF Len(prev_media) < MediaCap THEN handlers
                         ELSE Spawn([kind |-> "receive_answer", pc |-> "ra_limit", user |-> p,
                                     task_id |-> fsm[p].task_id, content_type |-> "photo_video",
                                     content |-> FirstTen(prev_media), created_at |-> Null])
    /\ UNCHANGED <<submissions_closed, curators, curator_seq, curator_tokens, next_curator_idx, users, submissions, sub_seq, presented, clock>>

\* message.answer('limit reached') (a failed send raises), then now = utcnow()
receive_answer_limit(h) ==
    /\ h.kind = "receive_answer" /\ h.pc = "ra_limit"
    /\ \E delivered \in BOOLEAN :
          IF delivered
          THEN /\ handlers' = Move(h, [h EXCEPT !.pc = "ra_insert", !.created_at = clock + 1])
               /\ clock' = clock + 1
          ELSE /\ handlers' = Retire(h)
               /\ UNCHANGED clock
    /\ UNCHANGED <<submissions_closed, curators, curator_seq, curator_tokens, next_curator_idx, users, submissions, sub_seq, fsm, presented, hist>>

\* variant: '/done' without the test of the collection (if not collected: return)
handle_done_command_unchecked(p) ==
    /\ fsm[p].state = "waiting_for_answer"
    /\ hist.events < MaxEvents
    /\ NumInFlight < MaxInFlight
    /\ hist' = [hist EXCEPT !.events = @ + 1,
                            !.empty = IF fsm[p].collected_media = <<>> THEN @ + 1 ELSE @]
    /\ IF /\ fsm[p].task_id # Null
          /\ task_by_id(fsm[p].task_id).type = "photo_video"
       THEN /\ handlers' = Spawn([kind |-> "handle_done", pc |-> "dn_insert", user |-> p,
                                  task_id |-> fsm[p].task_id, content_type |-> "photo_video",
                                  content |-> fsm[p].collected_media, created_at |-> clock + 1])
            /\ clock' = clock + 1
       ELSE UNCHANGED <<handlers, clock>>
    /\ UNCHANGED <<submissions_closed, curators, curator_seq, curator_tokens, next_curator_idx, users, submissions, sub_seq, fsm, presented>>

\* '/done' in state waiting_for_answer: task_by_id raises without a task_id,
\* another task type or an empty collection is refused, else
\* content = collected_media, now = utcnow()
handle_done_command_start(p) ==
    /\ fsm[p].state = "waiting_for_answer"
    /\ hist.events < MaxEvents
    /\ NumInFlight < MaxInFlight
    /\ hist' = [hist EXCEPT !.events = @ + 1,
                            !.empty = IF fsm[p].collected_media = <<>> THEN @ + 1 ELSE @]
    /\ IF /\ fsm[p].task_id # Null
          /\ task_by_id(fsm[p].task_id).type = "photo_video"
          /\ fsm[p].collected_media # <<>>
       THEN /\ handlers' = Spawn([kind |-> "handle_done", pc |-> "dn_insert", user |-> p,
                                  task_id |-> fsm[p].task_id, content_type |-> "photo_video",
                                  content |-> fsm[p].collected_media, created_at |-> clock + 1])
            /\ clock' = clock + 1
       ELSE UNCHANGED <<handlers, clock>>
    /\ UNCHANGED <<submissions_closed, curators, curator_seq, curator_tokens, next_curator_idx, users, submissions, sub_seq, fsm, presented>>

\* INSERT INTO submissions ... 'pending'; commit; the curator is looked up
handle_done_command_insert(h) ==
    /\ h.kind = "handle_done" /\ h.pc = "dn_insert"
    /\ submissions' = InsertPending(h)
    /\ sub_seq' = sub_seq + 1
    /\ handlers' = Move(h, [h EXCEPT !.pc = "dn_notify"])
    /\ UNCHANGED <<submissions_closed, curators, curator_seq, curator_tokens, next_curator_idx, users, fsm, presented, clock, hist>>

\* message.answer, notify_curator_new_answer, then state.clear(); a failed
\* send raises and the state is left as it was
handle_done_command_notify(h) ==
    /\ h.kind = "handle_done" /\ h.pc = "dn_notify"
    /\ \E delivered \in BOOLEAN :
          fsm' = IF delivered THEN [fsm EXCEPT ![h.user] = IdleFsm] ELSE fsm
    /\ handlers' = Retire(h)
    /\ UNCHANGED <<submissions_closed, curators, curator_seq, curator_tokens, next_curator_idx, users, submissions, sub_seq,
                   presented, clock, hist>>

\* an accepted answer of task t, reviewed before the model starts
AcceptedRow(p, t) ==
    [user_id |-> p, task_id |-> t, status |-> "accepted", content_type |-> "text",
     content |-> <<[kind |-> "text", ref |-> 0]>>, curator_comment |-> "", created_at |-> 0]

\* one curator, one participant with accepted answers of tasks 2, 3 (and 4);
\* the curator may have pressed reject on the last one before accepting it
InitMedia ==
    /\ curators = Lineup({1})
    /\ curator_seq = LastIdx(curators)
    /\ curator_tokens = {}
    /\ submissions_closed = FALSE
    /\ next_curator_idx = 1
    /\ \E n \in {2, 3} :
          /\ submissions = [s \in 1..n |-> AcceptedRow(1, s + 1)]
          /\ sub_seq = n
          /\ users = [p \in MediaUsers |-> [curator_idx |-> 1, points |-> n]]
          /\ \E r \in {Null, n} :
                fsm = [a \in MediaUsers \cup ReviewCurators |->
                          IF a \in ReviewCurators
                          THEN [IdleFsm EXCEPT !.reject_submission = r]
                          ELSE IdleFsm]
    /\ handlers = EmptyBag
    /\ presented = {}
    /\ clock = 0
    /\ hist = [InitHist EXCEPT !.cursor0 = 1]

\* the gate model stops taking updates after MaxMediaEvents of them
MediaBudget == hist.events + hist.frags < MaxMediaEvents

NextMedia ==
    \/ \E p \in MediaUsers : MediaBudget /\ on_send_answer_start(p, SuperTask)
    \/ \E h \in InFlight : on_send_answer_user(h)
    \/ \E h \in InFlight : on_send_answer_accepted(h)
    \/ \E h \in InFlight : on_send_answer_pending(h)
    \/ \E h \in InFlight : on_send_answer_count(h)
    \/ \E h \in InFlight : on_send_answer_prompt(h)
    \/ \E p \in MediaUsers, kind \in FragmentKinds : MediaBudget /\ receive_fragment(p, kind)
    \/ \E p \in MediaUsers : MediaBudget /\ handle_done_command_start(p)
    \/ \E h \in InFlight : handle_done_command_insert(h)
    \/ \E h \in InFlight : handle_done_command_notify(h)
    \/ \E c \in ReviewCurators, text \in Reasons :
          MediaBudget /\ handle_curator_reject_reason_start(c, text)
    \/ \E h \in InFlight : handle_curator_reject_reason_read(h)
    \/ \E h \in InFlight : handle_curator_reject_reason_write(h)
    \/ \E h \in InFlight : handle_curator_reject_reason_notify(h)
    \/ \E h \in InFlight : dispatcher_select(h)
    \/ \E h \in InFlight : dispatcher_check(h)

SpecMedia == InitMedia /\ [][NextMedia]_vars

\* the participant has three accepted answers and was admitted to task 14:
\* state waiting_for_answer, task_id 14, nothing collected
InitCap ==
    /\ curators = Lineup({1})
    /\ curator_seq = LastIdx(curators)
    /\ curator_tokens = {}
    /\ submissions_closed = FALSE
    /\ next_curator_idx = 1
    /\ submissions = [s \in 1..3 |-> AcceptedRow(1, s + 1)]
    /\ sub_seq = 3
    /\ users = [p \in MediaUsers |-> [curator_idx |-> 1, points |-> 3]]
    /\ fsm = [a \in MediaUsers \cup ReviewCurators |->
                 IF a \in MediaUsers
                 THEN [IdleFsm EXCEPT !.state = "waiting_for_answer", !.task_id = SuperTask]
                 ELSE IdleFsm]
    /\ handlers = EmptyBag
    /\ presented = {}
    /\ clock = 0
    /\ hist = [InitHist EXCEPT !.cursor0 = 1]

NextCap ==
    \/ \E p \in MediaUsers, kind \in FragmentKinds : receive_fragment(p, kind)
    \/ \E h \in InFlight : receive_answer_limit(h)
    \/ \E h \in InFlight : receive_answer_insert(h)
    \/ \E h \in InFlight : receive_answer_notify(h)

SpecCap == InitCap /\ [][NextCap]_vars

----------------------------------------------------------------------------
(* Album aggregation for the photo_multi task: receive_answer, finalize_album *)

\* photos a participant sends in the album model
MaxPhotos == 3
\* clock ticks of the album model
MaxTicks == 4

AlbumUsers == {1}
AlbumTask == 7
\* message.media_group_id: None for a photo sent on its own, else the album's key
GroupKeys == {Null, 1, 2}
\* asyncio.sleep(1.5), in clock ticks
IdleDelay == 2

\* the fragments of a sequence of collected photos
Refs(photos) == {photos[k].ref : k \in 1..Len(photos)}

\* the session the idle-timeout rule puts an arriving fragment in: the one of
\* the previous fragment when that came less than one idle delay before and
\* the fragment carries its key or none, else a new one
SessionOf(g) ==
    IF hist.arrivals = <<>> THEN 1
    ELSE LET prev == hist.arrivals[Len(hist.arrivals)]
         IN IF (g = prev.key \/ g = Null) /\ clock - prev.at < IdleDelay
            THEN prev.sess ELSE prev.sess + 1

\* a photo of the participant. In state waiting_for_answer for a photo_multi
\* task: if current_group_id != group_id: collected = [], media_group_id =
\* group_id; collected.append(file_id); update_data(collected_photos);
\* asyncio.create_task(finalize_album()). In any other state the message
\* falls through to the last handler, which ignores a participant.
receive_photo(p, g) ==
    /\ hist.frags < MaxPhotos
    /\ LET ref == hist.frags + 1
           handled == /\ fsm[p].state = "waiting_for_answer"
                      /\ fsm[p].task_id # Null
                      /\ task_by_id(fsm[p].task_id).type = "photo_multi"
           reset == fsm[p].media_group_id # g
           superseded == /\ handled
                         /\ fsm[p].collected_photos # <<>>
                         /\ g # Null
                         /\ reset
           collected == Append(IF reset THEN <<>> ELSE fsm[p].collected_photos,
                               [kind |-> "photo", ref |-> ref])
       IN /\ hist' = [hist EXCEPT
                         !.frags = ref,
                         !.arrivals = Append(@, [key |-> g, at |-> clock, sess |-> SessionOf(g),
                                                 handled |-> handled]),
                         !.epoch = IF superseded THEN @ + 1 ELSE @,
                         !.discarded = IF superseded THEN @ \cup Refs(fsm[p].collected_photos)
                                       ELSE @]
          /\ IF handled
             THEN /\ fsm' = [fsm EXCEPT ![p].media_group_id = g,
                                        ![p].collected_photos = collected]
                  /\ handlers' = Spawn([kind |-> "finalize_album", pc |-> "fa_sleep", user |-> p,
                                        task_id |-> fsm[p].task_id, group_id |-> g,
                                        due |-> clock + IdleDelay, ref |-> ref,
                                        epoch |-> hist'.epoch, content_type |-> "photo_multi",
                                        content |-> <<>>, created_at |-> Null])
             ELSE UNCHANGED <<fsm, handlers>>
    /\ UNCHANGED <<submissions_closed, curators, curator_seq, curator_tokens, next_curator_idx, users, submissions, sub_seq,
                   presented, clock>>

\* time passes
tick ==
    /\ clock < MaxTicks
    /\ clock' = clock + 1
    /\ UNCHANGED <<submissions_closed, curators, curator_seq, curator_tokens, next_curator_idx, users, submissions, sub_seq,
                   fsm, handlers, presented, hist>>

\* finalize_album after asyncio.sleep(1.5): if state_data.get("media_group_id")
\* == group_id and photos: update_data(collected_photos=[], media_group_id=None),
\* now = utcnow(); else the task ends
finalize_album_fire(h) ==
    /\ h.kind = "finalize_album" /\ h.pc = "fa_sleep"
    /\ clock >= h.due
    /\ IF /\ fsm[h.user].media_group_id = h.group_id
          /\ fsm[h.user].collected_photos # <<>>
       THEN /\ fsm' = [fsm EXCEPT ![h.user].collected_photos = <<>>,
                                  ![h.user].media_group_id = Null]
            /\ handlers' = Move(h, [h EXCEPT !.pc = "fa_insert",
                                             !.content = fsm[h.user].collected_photos,
                                             !.created_at = clock])
       ELSE /\ handlers' = Retire(h)
            /\ UNCHANGED fsm
    /\ UNCHANGED <<submissions_closed, curators, curator_seq, curator_tokens, next_curator_idx, users, submissions, sub_seq,
                   presented, clock, hist>>

\* INSERT INTO submissions ... 'pending'; commit; the curator is looked up
finalize_album_insert(h) ==
    /\ h.kind = "finalize_album" /\ h.pc = "fa_insert"
    /\ submissions' = InsertPending(h)
    /\ sub_seq' = sub_seq + 1
    /\ handlers' = Move(h, [h EXCEPT !.pc = "fa_notify"])
    /\ UNCHANGED <<submissions_closed, curators, curator_seq, curator_tokens, next_curator_idx, users, fsm, presented, clock, hist>>

\* message.answer, cmd_tasks, notify_curator_new_answer, then state.clear();
\* a failed send raises inside the task and the state is left as it was
finalize_album_notify(h) ==
    /\ h.kind = "finalize_album" /\ h.pc = "fa_notify"
    /\ \E delivered \in BOOLEAN :
          fsm' = IF delivered THEN [fsm EXCEPT ![h.user] = IdleFsm] ELSE fsm
    /\ handlers' = Retire(h)
    /\ UNCHANGED <<submissions_closed, curators, curator_seq, curator_tokens, next_curator_idx, users, submissions, sub_seq,
                   presented, clock, hist>>

\* the participant was admitted to task 7: state waiting_for_answer, task_id 7,
\* no album key, nothing collected
InitAlbum ==
    /\ curators = Lineup({1})
    /\ curator_seq = LastIdx(curators)
    /\ curator_tokens = {}
    /\ submissions_closed = FALSE
    /\ next_curator_idx = 1
    /\ submissions = <<>>
    /\ sub_seq = 0
    /\ users = [p \in AlbumUsers |-> [curator_idx |-> 1, points |-> 0]]
    /\ fsm = [a \in AlbumUsers |->
                 [IdleFsm EXCEPT !.state = "waiting_for_answer", !.task_id = AlbumTask]]
    /\ handlers = EmptyBag
    /\ presented = {}
    /\ clock = 0
    /\ hist = [InitHist EXCEPT !.cursor0 = 1]

NextAlbum ==
    \/ \E p \in AlbumUsers, g \in GroupKeys : receive_photo(p, g)
    \/ tick
    \/ \E h \in InFlight : finalize_album_fire(h)
    \/ \E h \in InFlight : finalize_album_insert(h)
    \/ \E h \in InFlight : finalize_album_notify(h)

SpecAlbum == InitAlbum /\ [][NextAlbum]_vars

\* '/done' messages of the model that starts below the cap
MaxDones == 1
\* fragments collected before that model starts
Stored == 9

\* the participant was admitted to task 14 and has sent nine photos
InitOver ==
    /\ curators = Lineup({1})
    /\ curator_seq = LastIdx(curators)
    /\ curator_tokens = {}
    /\ submissions_closed = FALSE
    /\ next_curator_idx = 1
    /\ submissions = [s \in 1..3 |-> AcceptedRow(1, s + 1)]
    /\ sub_seq = 3
    /\ users = [p \in MediaUsers |-> [curator_idx |-> 1, points |-> 3]]
    /\ fsm = [a \in MediaUsers \cup ReviewCurators |->
                 IF a \in MediaUsers
                 THEN [IdleFsm EXCEPT !.state = "waiting_for_answer", !.task_id = SuperTask,
                                      !.collected_media =
                                          [k \in 1..Stored |-> [kind |-> "photo", ref |-> k]]]
                 ELSE IdleFsm]
    /\ handlers = EmptyBag
    /\ presented = {}
    /\ clock = 0
    /\ hist = [InitHist EXCEPT !.cursor0 = 1, !.frags = Stored]

NextOver ==
    \/ \E p \in MediaUsers, kind \in FragmentKinds : receive_fragment(p, kind)
    \/ \E h \in InFlight : receive_answer_limit(h)
    \/ \E h \in InFlight : receive_answer_insert(h)
    \/ \E h \in InFlight : receive_answer_notify(h)
    \/ \E p \in MediaUsers : hist.events < MaxDones /\ handle_done_command_start(p)
    \/ \E h \in InFlight : handle_done_command_insert(h)
    \/ \E h \in InFlight : handle_done_command_notify(h)

SpecOver == InitOver /\ [][NextOver]_vars

----------------------------------------------------------------------------
(* Registration followed by answers: process_group, on_send_answer, receive_answer *)

\* group messages, button presses and answers of the model
MaxGateEvents == 4

\* one curator, a cursor row that is present or was never written, nobody registered
InitGate ==
    /\ curators = Lineup({1})
    /\ curator_seq = LastIdx(curators)
    /\ curator_tokens = {}
    /\ submissions_closed = FALSE
    /\ next_curator_idx \in {NoRow, 1}
    /\ users = <<>>
    /\ submissions = <<>>
    /\ sub_seq = 0
    /\ fsm = [p \in Participants |-> [IdleFsm EXCEPT !.state = "waiting_for_group"]]
    /\ handlers = EmptyBag
    /\ presented = {}
    /\ clock = 0
    /\ hist = [InitHist EXCEPT !.cursor0 = next_curator_idx]

GateBudget == hist.runs + hist.events < MaxGateEvents

NextGate ==
    \/ \E p \in Participants : GateBudget /\ process_group_start(p)
    \/ \E h \in InFlight : get_next_curator_cursor(h)
    \/ \E h \in InFlight : get_next_curator_list(h)
    \/ \E h \in InFlight : get_next_curator_write(h)
    \/ \E h \in InFlight : process_group_insert(h)
    \/ \E h \in InFlight : process_group_notify(h)
    \/ \E p \in Participants, t \in ReviewTasks : GateBudget /\ on_send_answer_start(p, t)
    \/ \E h \in InFlight : on_send_answer_user(h)
    \/ \E h \in InFlight : on_send_answer_accepted(h)
    \/ \E h \in InFlight : on_send_answer_pending(h)
    \/ \E h \in InFlight : on_send_answer_prompt(h)
    \/ \E p \in Participants, kind \in MessageKinds : GateBudget /\ receive_answer_start(p, kind)
    \/ \E h \in InFlight : receive_answer_insert(h)
    \/ \E h \in InFlight : receive_answer_notify(h)

SpecGate == InitGate /\ [][NextGate]_vars

----------------------------------------------------------------------------
(* Media aggregation and eligibility gate claims *)

\* rows the step adds to the submissions table
NewRows == DOMAIN submissions' \ Subs

\* pending submissions of the participant for the photo_video task
SuperPending(p) == SubsOf(p, SuperTask, "pending")

\* C13: a participant admitted to the photo_video task who sends exactly 10
\* fragments and no '/done' has no submission of the task before the tenth
\* fragment and, when the handler of the tenth has ended, exactly one pending
\* submission whose payload is the 10 fragments, kind-tagged, in arrival
\* order; the session (state, task_id, collected_media) is then gone.
CapFinalizesOnce ==
    /\ hist.frags < MediaCap => \A p \in MediaUsers : SuperPending(p) = {}
    /\ (hist.frags = MediaCap /\ Quiet) =>
          \A p \in MediaUsers :
             /\ Cardinality(SuperPending(p)) = 1
             /\ \A s \in SuperPending(p) :
                   /\ Len(submissions[s].content) = MediaCap
                   /\ \A k \in 1..MediaCap : submissions[s].content[k].ref = k
             /\ fsm[p] = IdleFsm

\* C14: a participant admitted to a multi-part task who sends 3 fragments and
\* then nothing more has, once no handler and no timer task is left to run,
\* exactly one pending submission whose payload is those 3 fragments in
\* arrival order.
IdleFinalizes ==
    \A p \in MediaUsers :
       (/\ Quiet /\ hist.frags = 3 /\ hist.events = 1
        /\ fsm[p].state = "waiting_for_answer" \/ SuperPending(p) # {})
          => /\ Cardinality(SuperPending(p)) = 1
             /\ \A s \in SuperPending(p) :
                   /\ Len(submissions[s].content) = 3
                   /\ \A k \in 1..3 : submissions[s].content[k].ref = k

\* C15: the request to send an answer for task 14 is refused, and opens no
\* session, while the participant has fewer than 3 accepted submissions, and is
\* admitted with 3; no pending submission of task 14 is ever created for a
\* participant who has fewer than 3 accepted submissions at that moment.
UnlockGate ==
    [][/\ \A h \in InFlight :
            on_send_answer_count(h) =>
               IF user_has_accepted_count(h.user) < 3
               THEN fsm' = fsm /\ handlers' = Retire(h)
               ELSE fsm'[h.user].task_id = SuperTask
       /\ \A s \in NewRows :
            (submissions'[s].task_id = SuperTask /\ submissions'[s].status = "pending")
               => user_has_accepted_count(submissions'[s].user_id) >= 3
      ]_vars

\* the gate of section 4.2 on the current state
GateAdmits(p, t) ==
    /\ ~(t = SuperTask /\ user_has_accepted_count(p) < 3)
    /\ ~submission_accepted_for_task(p, t)
    /\ ~submission_pending_for_task(p, t)

\* C19: the gate is evaluated again when a submission is recorded: no step
\* inserts a pending submission for (P, T) in a state where the gate refuses
\* (T accepted for P, T pending for P, or T locked for P).
GateHoldsAtInsert ==
    [][\A s \in NewRows : GateAdmits(submissions'[s].user_id, submissions'[s].task_id)]_vars

----------------------------------------------------------------------------
(* Dispatcher and resubmission claims *)

\* C16: when the dispatcher has selected a pending submission S2 whose
\* (participant, task) pair already has an accepted submission, S2 is not
\* presented, and the reconciliation step keeps the record of S2 with status
\* duplicate and adds no points.
DispatcherDemotes ==
    [][\A h \in InFlight :
         /\ (dispatcher_check(h) /\ submission_accepted_for_task(h.user_id, h.task_id))
               => presented' = presented
         /\ (/\ dispatcher_delete(h)
             /\ h.sub \in Subs
             /\ submissions[h.sub].status = "pending"
             /\ SubsOf(h.user_id, h.task_id, "accepted") # {}) =>
               /\ h.sub \in DOMAIN submissions'
               /\ submissions'[h.sub].status = "duplicate"
               /\ users' = users
               /\ presented' = presented
      ]_vars

\* C17: the reason message of a curator on a pending submission S of (P, T)
\* makes S rejected with the reason as its comment and goes on to send the
\* reason to P; a request of P to answer T that finds no pending submission of
\* (P, T) after its accepted check passed is admitted (rejected submissions do
\* not count), and the answer is recorded as a new pending submission of (P, T).
RejectThenResubmit ==
    [][\A h \in InFlight :
         /\ (handle_curator_reject_reason_write(h) /\ h.sub \in Subs
                /\ submissions[h.sub].status = "pending")
               => /\ submissions'[h.sub].status = "rejected"
                  /\ submissions'[h.sub].curator_comment = h.text
                  /\ \E g \in DOMAIN handlers' :
                        /\ g.kind = "reject_reason" /\ g.pc = "rr_notify"
                        /\ g.text = h.text
                        /\ g.user_id = submissions[h.sub].user_id
         /\ (on_send_answer_pending(h) /\ SubsOf(h.user, h.task_id, "pending") = {}
                /\ h.task_id # SuperTask)
               => /\ fsm'[h.user].task_id = h.task_id
                  /\ \E g \in DOMAIN handlers' :
                        g.kind = "on_send_answer" /\ g.pc = "sa_prompt" /\ g.user = h.user
         /\ receive_answer_insert(h)
               => /\ NewRows # {}
                  /\ \A s \in NewRows : /\ submissions'[s].status = "pending"
                                        /\ submissions'[s].user_id = h.user
                                        /\ submissions'[s].task_id = h.task_id
                  /\ \A s \in Subs : submissions'[s] = submissions[s]
      ]_vars

\* C17 witness: a submission rejected with the reason "blurry photo" and a
\* pending submission of the same participant and task recorded after it
ResubmittedAfterReject ==
    \E s \in Subs, r \in Subs :
       /\ submissions[s].status = "rejected"
       /\ submissions[s].curator_comment = "blurry photo"
       /\ submissions[r].status = "pending"
       /\ submissions[r].user_id = submissions[s].user_id
       /\ submissions[r].task_id = submissions[s].task_id
       /\ r > s
       /\ Cardinality(Subs) = 2

\* C18: the dispatcher selects the pending submission with the smallest
\* created_at of the curator's queue, a repeated advance without a decision
\* selects the same one, and the submissions a curator decides are decided in
\* ascending order of created_at: no submission is decided after one that was
\* created later.
CuratorFifo ==
    [][/\ \A h \in InFlight :
            (dispatcher_select(h) /\ Queue(h.curator_tg) # {}) =>
               \E g \in DOMAIN handlers' :
                  /\ g.kind = "send_next" /\ g.pc = "d_check"
                  /\ g.sub \in Queue(h.curator_tg)
                  /\ \A r \in Queue(h.curator_tg) :
                        submissions[g.sub].created_at <= submissions[r].created_at
       /\ \A s \in Subs :
            (/\ submissions[s].status = "pending"
             /\ s \in DOMAIN submissions'
             /\ submissions'[s].status \in Terminal)
               => \A r \in Subs :
                     submissions[r].status \in Terminal
                        => submissions[r].created_at <= submissions[s].created_at
      ]_vars

----------------------------------------------------------------------------
(* Ring claims *)

\* the curators n calls of get_next_curator return, one call after the other,
\* on the table all_cur and the cursor row (Null where the call returns None)
RECURSIVE AssignRun(_, _, _)
AssignRun(all_cur, cursor, n) ==
    IF n = 0 THEN <<>>
    ELSE IF cursor = NoRow \/ all_cur = <<>>
    THEN <<Null>> \o AssignRun(all_cur, cursor, n - 1)
    ELSE <<Chosen(all_cur, cursor).idx>>
            \o AssignRun(all_cur, NewNext(all_cur, cursor), n - 1)

\* the cursor row after those n calls
RECURSIVE CursorAfter(_, _, _)
CursorAfter(all_cur, cursor, n) ==
    IF n = 0 \/ cursor = NoRow \/ all_cur = <<>> THEN cursor
    ELSE CursorAfter(all_cur, NewNext(all_cur, cursor), n - 1)

\* C21: whatever additions, removals and assignments came before, as long as a
\* curator is left: each of the next assignments returns a curator of the
\* list, the cursor then holds the ordinal of a curator of the list, and every
\* curator of the list is returned within count consecutive assignments.
CursorNeverStuck ==
    (Quiet /\ curators # <<>>) =>
        LET count == Len(curators)
            ords == Range(Idxs(curators))
        IN /\ \A n \in 1..count :
                 /\ AssignRun(curators, next_curator_idx, n)[n] \in ords
                 /\ CursorAfter(curators, next_curator_idx, n) \in ords
           /\ Range(AssignRun(curators, next_curator_idx, count)) = ords

\* s is t with some elements left out
RECURSIVE IsSubSeq(_, _)
IsSubSeq(s, t) ==
    IF s = <<>> THEN TRUE
    ELSE IF t = <<>> THEN FALSE
    ELSE IF Head(s) = Head(t) THEN IsSubSeq(Tail(s), Tail(t))
    ELSE IsSubSeq(s, Tail(t))

\* C22: with a stored cursor and registrations one after another, the cursor
\* is written before the participant record: every call of the scheduler, also
\* one whose registration then stops at the insert, takes the next ring position
\* and moves the cursor by one; a stopped registration leaves no record, and the
\* recorded participants hold positions no other call of the round was given.
SkipOnStop ==
    (hist.cursor0 # NoRow /\ curators # <<>> /\ ~hist.overlap) =>
        /\ \A i \in 1..Len(hist.given) : hist.given[i] = RingAt(DesignatedPos + i - 1)
        /\ Len(hist.given) >= 1 =>
              next_curator_idx = RingAt(DesignatedPos + Len(hist.given))
        /\ IsSubSeq(hist.log, hist.given)
        /\ Cardinality(DOMAIN users) = Len(hist.log)
        /\ \A h \in InFlight :
              (h.kind = "process_group" /\ h.pc = "ins_user") =>
                 /\ h.curator_idx = hist.given[Len(hist.given)]
                 /\ Len(hist.log) < Len(hist.given)

\* C22 witness: of three registrations one after another the second stopped at
\* the insert; the third got the position after the skipped one
RegistrationStopped ==
    /\ hist.cursor0 # NoRow /\ Len(curators) = 2 /\ ~hist.overlap /\ Quiet
    /\ Len(hist.given) = 3 /\ Len(hist.log) = 2
    /\ hist.log = <<hist.given[1], hist.given[3]>>
    /\ Cardinality(DOMAIN users) = 2

\* C23: the assigned curator of a participant is set by the insert of the
\* registration and changes afterwards only in the write of a curator removal,
\* which moves the participants of the removed curator; no other step
\* (registration of another participant, curator addition, submission and
\* review steps) changes it or removes the record.
AssignedCuratorFrame ==
    [][/\ \A u \in DOMAIN users :
            /\ u \in DOMAIN users'
            /\ users'[u].curator_idx # users[u].curator_idx =>
                  \E h \in InFlight : /\ confirm_deletion_write(h)
                                      /\ users[u].curator_idx = h.idx
       /\ \A u \in DOMAIN users' \ DOMAIN users :
            \E h \in InFlight : /\ process_group_insert(h)
                                /\ h.user = u
                                /\ users'[u].curator_idx = h.curator_idx
      ]_vars

\* C23 witness: the only registered participant no longer has the curator the
\* registration gave: a removal has moved the participant
ParticipantMoved ==
    /\ Quiet /\ Len(hist.log) = 1
    /\ \E u \in DOMAIN users : /\ users[u].curator_idx # hist.log[1]
                               /\ users[u].curator_idx \in Range(Idxs(curators))

----------------------------------------------------------------------------
(* Album aggregation claims *)

\* the fragment that arrives in this step
Arrived == hist'.arrivals[Len(hist'.arrivals)]

\* the submissions that hold fragment k
HeldBy(k) == {s \in Subs : k \in Refs(submissions[s].content)}

\* C24: a superseded session leaves no trace: none of its discarded fragments
\* is in the payload of a submission, and a timer of a session that has been
\* superseded since the timer was started creates no submission when it fires.
SupersededLeavesNoTrace ==
    [][/\ \A s \in NewRows : Refs(submissions'[s].content) \cap hist.discarded = {}
       /\ \A h \in InFlight :
             (/\ h.kind = "finalize_album"
              /\ h.epoch < hist.epoch
              /\ finalize_album_fire(h)) => handlers' = Retire(h)
      ]_vars

\* C25: an open session is abandoned only by a fragment that carries a
\* non-empty group key different from the session's: every other fragment,
\* one without a group key included, is appended to what was collected.
AbandonedOnlyByOtherKey ==
    [][\A p \in AlbumUsers :
         (/\ hist'.frags = hist.frags + 1
          /\ Arrived.handled
          /\ fsm[p].collected_photos # <<>>)
         => \/ Arrived.key # Null /\ Arrived.key # fsm[p].media_group_id
            \/ fsm'[p].collected_photos =
                  Append(fsm[p].collected_photos, [kind |-> "photo", ref |-> hist'.frags])
      ]_vars

\* C27: an aggregation session produces at most one submission: no two
\* submissions hold fragments of the same session.
OneFinalizePerSession ==
    \A s1, s2 \in Subs :
       s1 # s2 =>
          \A a \in Refs(submissions[s1].content), b \in Refs(submissions[s2].content) :
             hist.arrivals[a].sess # hist.arrivals[b].sess

\* C28: each fragment restarts the idle timer: a fragment that arrives less
\* than one idle delay after the previous fragment of its session is in every
\* submission that holds that previous fragment.
IdleTimerRestarted ==
    \A k \in 2..Len(hist.arrivals) :
       hist.arrivals[k].sess = hist.arrivals[k - 1].sess => HeldBy(k - 1) \subseteq HeldBy(k)

\* C26: '/done' while nothing is collected is refused: it creates no
\* submission and no handler and leaves the session as it was; a '/done' that
\* follows a later fragment records exactly one pending submission holding
\* what was collected.
EmptyDoneRefused ==
    [][/\ hist'.empty = hist.empty + 1 =>
             /\ submissions' = submissions
             /\ handlers' = handlers
             /\ fsm' = fsm
       /\ \A h \in InFlight :
             (h.kind = "handle_done" /\ handle_done_command_insert(h)) =>
                /\ h.content # <<>>
                /\ NewRows = {sub_seq + 1}
                /\ submissions'[sub_seq + 1].status = "pending"
                /\ submissions'[sub_seq + 1].content = h.content
      ]_vars

\* a '/done' was refused for an empty collection and a later one recorded the
\* fragments sent in between
DoneAfterRefusal ==
    /\ hist.empty >= 1
    /\ \E p \in MediaUsers : \E s \in SuperPending(p) : submissions[s].content # <<>>

----------------------------------------------------------------------------
(* Notification failure claims *)

\* C29: recording a submission ends the participant's submission session:
\* when the handler that inserted the pending submission ends, whether its
\* notifications were delivered or not, the participant is no longer waiting
\* for an answer.
RecordingEndsSession ==
    [][\A h \in InFlight :
          (h.kind = "receive_answer" /\ receive_answer_notify(h))
          => fsm'[h.user].state # "waiting_for_answer"
      ]_vars

\* C30: a failed notification is not a consistency failure: the step that
\* notifies the participant after an accept or after a rejection reason,
\* delivered or not, leaves the committed rows and points as they are, and
\* after a rejection reason it leaves the curator without a submission
\* awaiting a reason.
FailedNotificationIsHarmless ==
    [][\A h \in InFlight :
          /\ (h.kind = "curator_accept" /\ curator_accept_notify(h))
             => submissions' = submissions /\ users' = users
          /\ (h.kind = "reject_reason" /\ handle_curator_reject_reason_notify(h))
             => /\ submissions' = submissions /\ users' = users
                /\ fsm'[h.curator_tg].reject_submission = Null
      ]_vars

----------------------------------------------------------------------------
(* Review engine with a curator who keeps working: fair specification *)

\* button presses and messages of the participant in the fair specification
MaxProgressEvents == 3

\* 'Начать проверку' pressed, any number of times
curator_start_check_again(c) ==
    /\ NumInFlight < MaxInFlight
    /\ handlers' = Spawn(send_next_submission_to_curator(c))
    /\ UNCHANGED <<submissions_closed, curators, curator_seq, curator_tokens, next_curator_idx, users, submissions, sub_seq, fsm,
                   presented, clock, hist>>

\* 'cur_accept_<id>' pressed on a presented submission that is still pending
\* (on any other row the handler alerts and returns)
curator_accept_pending(c, sid) ==
    /\ <<c, sid>> \in presented
    /\ Verdict(sid) = "proceed"
    /\ NumInFlight < MaxInFlight
    /\ handlers' = Spawn([kind |-> "curator_accept", pc |-> "ac_check", curator_tg |-> c,
                          sub |-> sid, user_id |-> submissions[sid].user_id,
                          task_id |-> submissions[sid].task_id, already |-> FALSE])
    /\ UNCHANGED <<submissions_closed, curators, curator_seq, curator_tokens, next_curator_idx, users, submissions, sub_seq, fsm,
                   presented, clock, hist>>

\* 'cur_reject_<id>' pressed on a presented submission that is still pending
curator_reject_pending(c, sid) ==
    /\ <<c, sid>> \in presented
    /\ Verdict(sid) = "proceed"
    /\ NumInFlight < MaxInFlight
    /\ handlers' = Spawn([kind |-> "curator_reject", pc |-> "rj_ask", curator_tg |-> c,
                          sub |-> sid])
    /\ UNCHANGED <<submissions_closed, curators, curator_seq, curator_tokens, next_curator_idx, users, submissions, sub_seq, fsm,
                   presented, clock, hist>>

\* the reason message of a curator whose FSM data holds reject_submission
handle_curator_reject_reason_sent(c, text) ==
    /\ fsm[c].reject_submission # Null
    /\ NumInFlight < MaxInFlight
    /\ handlers' = Spawn([kind |-> "reject_reason", pc |-> "rr_read", curator_tg |-> c,
                          sub |-> fsm[c].reject_submission, text |-> text,
                          user_id |-> Null, task_id |-> Null])
    /\ UNCHANGED <<submissions_closed, curators, curator_seq, curator_tokens, next_curator_idx, users, submissions, sub_seq, fsm,
                   presented, clock, hist>>

NextProgress ==
    \/ \E p \in ReviewUsers, t \in ReviewTasks :
          hist.events < MaxProgressEvents /\ on_send_answer_start(p, t)
    \/ \E h \in InFlight : on_send_answer_user(h)
    \/ \E h \in InFlight : on_send_answer_accepted(h)
    \/ \E h \in InFlight : on_send_answer_pending(h)
    \/ \E h \in InFlight : on_send_answer_prompt(h)
    \/ \E p \in ReviewUsers, kind \in MessageKinds :
          hist.events < MaxProgressEvents /\ receive_answer_start(p, kind)
    \/ \E h \in InFlight : receive_answer_insert(h)
    \/ \E h \in InFlight : receive_answer_notify(h)
    \/ \E c \in ReviewCurators : curator_start_check_again(c)
    \/ \E h \in InFlight : dispatcher_select(h)
    \/ \E h \in InFlight : dispatcher_check(h)
    \/ \E h \in InFlight : dispatcher_delete(h)
    \/ \E c \in ReviewCurators, sid \in 1..sub_seq : curator_accept_pending(c, sid)
    \/ \E h \in InFlight : curator_accept_check(h)
    \/ \E h \in InFlight : curator_accept_write(h)
    \/ \E h \in InFlight : curator_accept_notify(h)
    \/ \E c \in ReviewCurators, sid \in 1..sub_seq : curator_reject_pending(c, sid)
    \/ \E h \in InFlight : curator_reject_ask(h)
    \/ \E c \in ReviewCurators, text \in Reasons : handle_curator_reject_reason_sent(c, text)
    \/ \E h \in InFlight : handle_curator_reject_reason_read(h)
    \/ \E h \in InFlight : handle_curator_reject_reason_write(h)
    \/ \E h \in InFlight : handle_curator_reject_reason_notify(h)

\* the event loop resumes every coroutine that is ready to go on
LoopRuns ==
    /\ WF_vars(\E h \in InFlight : on_send_answer_user(h))
    /\ WF_vars(\E h \in InFlight : on_send_answer_accepted(h))
    /\ WF_vars(\E h \in InFlight : on_send_answer_pending(h))
    /\ WF_vars(\E h \in InFlight : on_send_answer_prompt(h))
    /\ WF_vars(\E h \in InFlight : receive_answer_insert(h))
    /\ WF_vars(\E h \in InFlight : receive_answer_notify(h))
    /\ WF_vars(\E h \in InFlight : dispatcher_select(h))
    /\ WF_vars(\E h \in InFlight : dispatcher_check(h))
    /\ WF_vars(\E h \in InFlight : dispatcher_delete(h))
    /\ WF_vars(\E h \in InFlight : curator_accept_check(h))
    /\ WF_vars(\E h \in InFlight : curator_accept_write(h))
    /\ WF_vars(\E h \in InFlight : curator_accept_notify(h))
    /\ WF_vars(\E h \in InFlight : curator_reject_ask(h))
    /\ WF_vars(\E h \in InFlight : handle_curator_reject_reason_read(h))
    /\ WF_vars(\E h \in InFlight : handle_curator_reject_reason_write(h))
    /\ WF_vars(\E h \in InFlight : handle_curator_reject_reason_notify(h))

\* the curator keeps asking for the next item, presses a button on every
\* presented pending submission, is reached by the prompt for the reason and
\* answers it
CuratorKeepsWorking ==
    /\ SF_vars(\E c \in ReviewCurators : curator_start_check_again(c))
    /\ SF_vars(\E c \in ReviewCurators, sid \in 1..sub_seq :
                  curator_accept_pending(c, sid) \/ curator_reject_pending(c, sid))
    /\ SF_vars(\E h \in InFlight :
                  curator_reject_ask(h) /\ fsm'[h.curator_tg].reject_submission = h.sub)
    /\ SF_vars(\E c \in ReviewCurators, text \in Reasons : handle_curator_reject_reason_sent(c, text))

SpecProgress == Init /\ [][NextProgress]_vars /\ LoopRuns /\ CuratorKeepsWorking

----------------------------------------------------------------------------
(* Review with two curators and a removal *)

\* updates delivered to the handover model
MaxHandoverEvents == 5

HandoverUsers == {1}

\* two stored curators; the participant is assigned to the first one and has
\* been admitted to a task
InitHandover ==
    /\ curators = Lineup({1, 2})
    /\ curator_seq = LastIdx(curators)
    /\ curator_tokens = {}
    /\ submissions_closed = FALSE
    /\ next_curator_idx = 2
    /\ users = [p \in HandoverUsers |-> [curator_idx |-> 1, points |-> 0]]
    /\ submissions = <<>>
    /\ sub_seq = 0
    /\ fsm = [a \in HandoverUsers \cup RingTgs |->
                 IF a \in HandoverUsers
                 THEN [IdleFsm EXCEPT !.state = "waiting_for_answer", !.task_id = 2]
                 ELSE IdleFsm]
    /\ handlers = EmptyBag
    /\ presented = {}
    /\ clock = 0
    /\ hist = [InitHist EXCEPT !.cursor0 = 2]

HandoverBudget == hist.events < MaxHandoverEvents

NextHandover ==
    \/ \E p \in HandoverUsers, kind \in MessageKinds : HandoverBudget /\ receive_answer_start(p, kind)
    \/ \E h \in InFlight : receive_answer_insert(h)
    \/ \E h \in InFlight : receive_answer_notify(h)
    \/ \E c \in RingTgs : HandoverBudget /\ curator_start_check(c)
    \/ \E h \in InFlight : dispatcher_select(h)
    \/ \E h \in InFlight : dispatcher_check(h)
    \/ \E h \in InFlight : dispatcher_delete(h)
    \/ \E c \in RingTgs, sid \in 1..sub_seq : HandoverBudget /\ curator_accept_start(c, sid)
    \/ \E h \in InFlight : curator_accept_check(h)
    \/ \E h \in InFlight : curator_accept_write(h)
    \/ \E h \in InFlight : curator_accept_notify(h)
    \/ \E c \in RingTgs, sid \in 1..sub_seq : HandoverBudget /\ curator_reject_start(c, sid)
    \/ \E h \in InFlight : curator_reject_ask(h)
    \/ \E c \in RingTgs, text \in Reasons : HandoverBudget /\ handle_curator_reject_reason_start(c, text)
    \/ \E h \in InFlight : handle_curator_reject_reason_read(h)
    \/ \E h \in InFlight : handle_curator_reject_reason_write(h)
    \/ \E h \in InFlight : handle_curator_reject_reason_notify(h)
    \/ \E c \in RingTgs : cmd_delete_curator(c)
    \/ \E c \in RingTgs : HandoverBudget /\ confirm_deletion_start(c)
    \/ \E h \in InFlight : confirm_deletion_row(h)
    \/ \E h \in InFlight : confirm_deletion_list(h)
    \/ \E h \in InFlight : confirm_deletion_write(h)

SpecHandover == InitHandover /\ [][NextHandover]_vars

----------------------------------------------------------------------------
(* Stopping the submissions: cmd_stop_submissions *)

\* updates delivered to the model of the closed contest
MaxClosedEvents == 5

\* /stop_submissions of the administrator: the row is read
cmd_stop_submissions_start ==
    /\ hist.events < MaxEvents
    /\ NumInFlight < MaxInFlight
    /\ hist' = [hist EXCEPT !.events = @ + 1]
    /\ handlers' = Spawn([kind |-> "stop_submissions", pc |-> "ss_write",
                          closed |-> is_submissions_closed])
    /\ UNCHANGED <<curators, curator_seq, curator_tokens, submissions_closed, next_curator_idx, users,
                   submissions, sub_seq, fsm, presented, clock>>

\* new_state = "false" if closed else "true"; INSERT OR REPLACE INTO meta; commit
cmd_stop_submissions_write(h) ==
    /\ h.kind = "stop_submissions" /\ h.pc = "ss_write"
    /\ submissions_closed' = ~h.closed
    /\ handlers' = Retire(h)
    /\ UNCHANGED <<curators, curator_seq, curator_tokens, next_curator_idx, users, submissions, sub_seq, fsm,
                   presented, clock, hist>>

ClosedBudget == hist.events < MaxClosedEvents

NextClosed ==
    \/ ClosedBudget /\ cmd_stop_submissions_start
    \/ \E h \in InFlight : cmd_stop_submissions_write(h)
    \/ \E p \in ReviewUsers, t \in ReviewTasks : ClosedBudget /\ on_send_answer_start(p, t)
    \/ \E h \in InFlight : on_send_answer_user(h)
    \/ \E h \in InFlight : on_send_answer_accepted(h)
    \/ \E h \in InFlight : on_send_answer_pending(h)
    \/ \E h \in InFlight : on_send_answer_prompt(h)
    \/ \E p \in ReviewUsers, kind \in MessageKinds : ClosedBudget /\ receive_answer_start(p, kind)
    \/ \E h \in InFlight : receive_answer_insert(h)
    \/ \E h \in InFlight : receive_answer_notify(h)

SpecClosed == Init /\ [][NextClosed]_vars

----------------------------------------------------------------------------
(* Album aggregation with a participant who opens another task *)

\* 'send_<task>' presses delivered to the album model
MaxSwitches == 1

NextSwitch ==
    \/ \E p \in AlbumUsers, g \in GroupKeys : receive_photo(p, g)
    \/ tick
    \/ \E h \in InFlight : finalize_album_fire(h)
    \/ \E h \in InFlight : finalize_album_insert(h)
    \/ \E h \in InFlight : finalize_album_notify(h)
    \/ \E p \in AlbumUsers, t \in ReviewTasks :
          hist.events < MaxSwitches /\ on_send_answer_start(p, t)
    \/ \E h \in InFlight : on_send_answer_user(h)
    \/ \E h \in InFlight : on_send_answer_accepted(h)
    \/ \E h \in InFlight : on_send_answer_pending(h)
    \/ \E h \in InFlight : on_send_answer_prompt(h)

SpecSwitch == InitAlbum /\ [][NextSwitch]_vars

----------------------------------------------------------------------------
(* Dispatcher, gate and registry claims *)

\* C31: the dispatcher presents to a curator only a submission that, when it is
\* presented, is pending, belongs to a participant assigned to that curator and
\* has no accepted sibling for its participant and task; a dispatcher that
\* finds the queue empty presents nothing.
PresentsOnlyReviewable ==
    [][\A h \in InFlight :
          /\ (h.kind = "send_next" /\ h.pc = "d_check" /\ dispatcher_check(h)
              /\ handlers' = Retire(h))
             => /\ h.sub \in Queue(h.curator_tg)
                /\ ~submission_accepted_for_task(h.user_id, h.task_id)
          /\ (h.kind = "send_next" /\ h.pc = "d_select" /\ Queue(h.curator_tg) = {}
              /\ dispatcher_select(h)) => presented' = presented
      ]_vars

\* the gate of section 4.2 with its precedence, on the current state
GateResult(p, t) ==
    IF t = SuperTask /\ user_has_accepted_count(p) < 3 THEN "TaskLocked"
    ELSE IF submission_accepted_for_task(p, t) THEN "AlreadyAccepted"
    ELSE IF submission_pending_for_task(p, t) THEN "ReviewInProgress"
    ELSE "Admit"

\* the request to send an answer is admitted in this step
Admitted(h) == handlers' = Move(h, [h EXCEPT !.pc = "sa_prompt"])

\* C32: the answer of the request to send an answer is the result of the gate
\* on the current state: a refusal for an accepted answer, for a pending
\* answer or for the locked task is given exactly when the gate returns
\* AlreadyAccepted, ReviewInProgress or TaskLocked, and the request is
\* admitted exactly when the gate admits.
GateAsStated ==
    [][\A h \in InFlight :
          h.kind = "on_send_answer" =>
             /\ (on_send_answer_accepted(h) /\ handlers' = Retire(h))
                => GateResult(h.user, h.task_id) = "AlreadyAccepted"
             /\ (on_send_answer_pending(h) /\ handlers' = Retire(h))
                => GateResult(h.user, h.task_id) = "ReviewInProgress"
             /\ (on_send_answer_count(h) /\ handlers' = Retire(h))
                => GateResult(h.user, h.task_id) = "TaskLocked"
             /\ ((on_send_answer_pending(h) \/ on_send_answer_count(h)) /\ Admitted(h))
                => GateResult(h.user, h.task_id) = "Admit"
      ]_vars

\* C33: a request to send an answer by an actor who is not registered, or by a
\* participant without a curator, is refused: it opens no session and creates
\* no submission; no pending submission exists for a registered participant
\* without a curator.
NoCuratorNoSession ==
    [][/\ \A h \in InFlight :
            (/\ h.kind = "on_send_answer"
             /\ on_send_answer_user(h)
             /\ (h.user \notin DOMAIN users \/ users[h.user].curator_idx = Null))
            => /\ handlers' = Retire(h)
               /\ fsm' = fsm
               /\ submissions' = submissions
       /\ \A s \in DOMAIN submissions' :
            (/\ submissions'[s].status = "pending"
             /\ submissions'[s].user_id \in DOMAIN users')
            => users'[submissions'[s].user_id].curator_idx # Null
      ]_vars

\* an actor who was not registered and a participant registered without a
\* curator were both refused
RefusedWithoutCurator ==
    /\ \E p \in hist.refused : p \in DOMAIN users /\ users[p].curator_idx = Null
    /\ \E p \in hist.refused : p \notin DOMAIN users
    /\ Quiet /\ submissions = <<>>

\* C34: the payload of every recorded submission of the photo_video task holds
\* at least 1 and at most 10 fragments.
PayloadWithinCap ==
    \A s \in Subs :
       (submissions[s].task_id = SuperTask /\ submissions[s].status = "pending")
          => Len(submissions[s].content) \in 1..MediaCap

\* curators added through the invite link of token t
JoinedBy(t) == {k \in DOMAIN hist.joined : hist.joined[k] = t}

\* C35: invite tokens are one-shot: every generated token has added at most
\* one curator, however the invite handlers interleave and end, and no
\* channel identity is in the curator list twice.
TokensAreOneShot ==
    /\ \A t \in 1..hist.tokens : Cardinality(JoinedBy(t)) <= 1
    /\ \A i, j \in DOMAIN curators : curators[i].tg = curators[j].tg => i = j


\* C36: referential integrity of assignment: the non-null assigned curator of
\* every participant is the ordinal of a curator now in the list, also when a
\* registration and a curator removal interleave.
AssignedCuratorExists ==
    \A u \in DOMAIN users :
        users[u].curator_idx # Null => users[u].curator_idx \in Range(Idxs(curators))


\* a submission of the review engine is waiting for a decision
IsPending(s) == s \in Subs /\ submissions[s].status = "pending"

\* every pending submission eventually leaves the pending state
PendingLeaves == \A s \in 1..MaxProgressEvents : IsPending(s) ~> ~IsPending(s)

\* the step that ends a committed accept or a committed rejection hands its
\* coroutine over to the dispatcher of the deciding curator
DecisionAdvances ==
    [][\A h \in InFlight :
          /\ (h.kind = "curator_accept" /\ curator_accept_notify(h))
             => handlers' = Move(h, send_next_submission_to_curator(h.curator_tg))
          /\ (h.kind = "reject_reason" /\ handle_curator_reject_reason_notify(h))
             => handlers' = Move(h, send_next_submission_to_curator(h.curator_tg))
      ]_vars

\* C37: queue progress: with a curator who keeps asking for the next item and
\* decides every presented submission, every pending submission of the
\* curator's participants eventually leaves the pending state, and every
\* completed accept or rejection is followed by the dispatcher for that curator.
QueueProgress == PendingLeaves /\ DecisionAdvances


\* the curator with channel identity tg is the one now assigned to the
\* participant of submission sid
DecidesFor(tg, sid) ==
    /\ sid \in Subs
    /\ submissions[sid].user_id \in DOMAIN users
    /\ CuratorIdxOf(tg) # Null
    /\ users[submissions[sid].user_id].curator_idx = CuratorIdxOf(tg)

\* C38: a decision changes a submission only when it comes from the curator
\* now assigned to the submission's participant: the write of an accept or of
\* a rejection by any other actor changes no status and no points.
DecisionOnlyByAssigned ==
    [][\A h \in InFlight :
          /\ (h.kind = "curator_accept" /\ curator_accept_write(h)
              /\ ~DecidesFor(h.curator_tg, h.sub))
             => submissions' = submissions /\ users' = users
          /\ (h.kind = "reject_reason" /\ handle_curator_reject_reason_write(h)
              /\ ~DecidesFor(h.curator_tg, h.sub))
             => submissions' = submissions /\ users' = users
      ]_vars


\* C39: while the 'submissions closed' flag is set no new pending submission
\* is recorded by any path, also for a participant admitted before the flag
\* was set; every toggle inverts the flag, so two of them restore acceptance.
ClosedRecordsNothing ==
    [][/\ submissions_closed =>
             \A s \in DOMAIN submissions' :
                 submissions'[s].status = "pending"
                 => s \in DOMAIN submissions /\ submissions[s].status = "pending"
       /\ \A h \in InFlight :
             (h.kind = "stop_submissions" /\ cmd_stop_submissions_write(h))
             => submissions_closed' = ~submissions_closed
      ]_vars


\* the participant of the album timer h is now in a session for another task
InOtherSession(h) ==
    /\ fsm[h.user].state = "waiting_for_answer"
    /\ fsm[h.user].task_id # h.task_id

\* C40: an idle timer of the session for task T that runs after the participant
\* was admitted to another task T' records only T, with the fragments the timer
\* took, and leaves the session for T' as it is.
TimerKeepsOtherSession ==
    [][\A h \in InFlight :
          (/\ h.kind = "finalize_album"
           /\ InOtherSession(h)
           /\ IF h.pc = "fa_sleep" THEN finalize_album_fire(h)
              ELSE IF h.pc = "fa_insert" THEN finalize_album_insert(h)
              ELSE finalize_album_notify(h))
          => /\ fsm'[h.user].state = "waiting_for_answer"
             /\ fsm'[h.user].task_id = fsm[h.user].task_id
             /\ \A s \in DOMAIN submissions' \ DOMAIN submissions :
                   /\ submissions'[s].task_id = h.task_id
                   /\ submissions'[s].content = h.content
      ]_vars

====
